---- MODULE Spec2Model ----
(***************************************************************************)
(* Flint asset pipeline: the project organizer (organize_project), the     *)
(* linked-BIN concatenator (concatenate_linked_bins) and the repathing     *)
(* engine (repath_project), over a model of the project's working root.    *)
(*                                                                         *)
(* A string is a sequence of one-character strings, so that lowercasing,   *)
(* prefix tests, slicing and formatting are computed as the code computes  *)
(* them.  A path is a string relative to the working root (file_base).     *)
(***************************************************************************)
EXTENDS Integers, Sequences, FiniteSets, TLC

(***************************************************************************)
(* String primitives (Rust str / Path methods used by the code)            *)
(***************************************************************************)

\* the ASCII capital letters
Capitals ==
    { "A", "B", "C", "D", "E", "F", "G", "H", "I", "J", "K", "L", "M",
      "N", "O", "P", "Q", "R", "S", "T", "U", "V", "W", "X", "Y", "Z" }

\* char::to_lowercase on the ASCII letters
LowerCh(c) ==
    IF c \notin Capitals THEN c
    ELSE CASE c = "A" -> "a" [] c = "B" -> "b" [] c = "C" -> "c" [] c = "D" -> "d"
           [] c = "E" -> "e" [] c = "F" -> "f" [] c = "G" -> "g" [] c = "H" -> "h"
           [] c = "I" -> "i" [] c = "J" -> "j" [] c = "K" -> "k" [] c = "L" -> "l"
           [] c = "M" -> "m" [] c = "N" -> "n" [] c = "O" -> "o" [] c = "P" -> "p"
           [] c = "Q" -> "q" [] c = "R" -> "r" [] c = "S" -> "s" [] c = "T" -> "t"
           [] c = "U" -> "u" [] c = "V" -> "v" [] c = "W" -> "w" [] c = "X" -> "x"
           [] c = "Y" -> "y" [] c = "Z" -> "z"

\* str::to_lowercase
to_lowercase(s) == [i \in 1..Len(s) |-> LowerCh(s[i])]

\* str::replace(from, to) for one-character patterns
replace(s, from, to) == [i \in 1..Len(s) |-> IF s[i] = from THEN to ELSE s[i]]

\* str::starts_with
starts_with(s, p) == Len(s) >= Len(p) /\ SubSeq(s, 1, Len(p)) = p

\* str::ends_with
ends_with(s, p) == Len(s) >= Len(p) /\ SubSeq(s, Len(s) - Len(p) + 1, Len(s)) = p

\* str::contains
contains(s, p) == \E i \in 1..(Len(s) - Len(p) + 1) : SubSeq(s, i, i + Len(p) - 1) = p

\* &s[n..]
skip(s, n) == SubSeq(s, n + 1, Len(s))

\* index of the last occurrence of character c in the first n characters of s,
\* 0 when there is none
RECURSIVE LastIndexUpTo(_, _, _)
LastIndexUpTo(s, c, n) ==
    IF n = 0 THEN 0 ELSE IF s[n] = c THEN n ELSE LastIndexUpTo(s, c, n - 1)

\* str::rfind, 0 when there is none
LastIndexOf(s, c) == LastIndexUpTo(s, c, Len(s))

\* Path::file_name (also lower.split('/').last())
file_name(p) == skip(p, LastIndexOf(p, "/"))

\* Path::parent
parent(p) == SubSeq(p, 1, LastIndexOf(p, "/") - 1)

\* Path::extension: the part of the file name after its last dot, none when the
\* name has no dot or only a leading one
extension(p) ==
    LET fn == file_name(p)
        d  == LastIndexOf(fn, ".")
    IN  IF d <= 1 THEN <<>> ELSE skip(fn, d)

\* every proper directory prefix of a path
Ancestors(p) == { SubSeq(p, 1, i - 1) : i \in { j \in 1..Len(p) : p[j] = "/" } }

\* decimal rendering of a natural number ({} in format!)
RECURSIVE Decimal(_)
Decimal(n) ==
    LET d == <<"0", "1", "2", "3", "4", "5", "6", "7", "8", "9">>[(n % 10) + 1]
    IN  IF n < 10 THEN <<d>> ELSE Decimal(n \div 10) \o <<d>>

\* {:02} in format!
Decimal02(n) == IF n < 10 THEN <<"0">> \o Decimal(n) ELSE Decimal(n)

(***************************************************************************)
(* String literals of the code                                             *)
(***************************************************************************)
S_assets_slash == <<"a","s","s","e","t","s","/">>
S_data_slash == <<"d","a","t","a","/">>
S_ASSETS_slash == <<"A","S","S","E","T","S","/">>
S_data_characters_slash == <<"d","a","t","a","/","c","h","a","r","a","c","t","e","r","s","/">>
S_slash_animations_slash == <<"/","a","n","i","m","a","t","i","o","n","s","/">>
S_slash_skins_slash == <<"/","s","k","i","n","s","/">>
S_slash_skins_slash_skin == <<"/","s","k","i","n","s","/","s","k","i","n">>
S_dot_bin == <<".","b","i","n">>
S_bin == <<"b","i","n">>
S_root_bin == <<"r","o","o","t",".","b","i","n">>
S_concat_marker == <<"_","_","c","o","n","c","a","t">>
S_Concat_suffix == <<"_","_","C","o","n","c","a","t",".","b","i","n">>
S_skin == <<"s","k","i","n">>

(***************************************************************************)
(* Pure functions of concat.rs and refather.rs                             *)
(***************************************************************************)

\* str::split('/')
RECURSIVE split_slash(_)
split_slash(s) ==
    IF \E i \in 1..Len(s) : s[i] = "/"
    THEN LET i == CHOOSE k \in 1..Len(s) : s[k] = "/" /\ \A j \in 1..(k - 1) : s[j] # "/"
         IN  <<SubSeq(s, 1, i - 1)>> \o split_slash(skip(s, i))
    ELSE <<s>>

\* classify_bin altered: the file name is taken from the path as given, not
\* from its lowercase form
classify_bin_as_given(path) ==
    LET normalized == replace(path, "\\", "/")
        lower      == to_lowercase(normalized)
        filename   == file_name(normalized)
        parts      == split_slash(normalized)
    IN  IF /\ starts_with(lower, S_data_characters_slash)
           /\ ~contains(lower, S_slash_animations_slash)
           /\ Len(parts) = 4
           /\ ends_with(to_lowercase(parts[4]), S_dot_bin)
           /\ to_lowercase(parts[4]) = to_lowercase(parts[3]) \o S_dot_bin
        THEN "ChampionRoot"
        ELSE IF filename = S_root_bin
        THEN "ChampionRoot"
        ELSE IF /\ starts_with(lower, S_data_characters_slash)
                /\ contains(lower, S_slash_animations_slash)
        THEN "Animation"
        ELSE "LinkedData"

\* classify_bin: the category of a dependency path (Ignore is never produced)
classify_bin(path) ==
    LET normalized == replace(path, "\\", "/")
        lower      == to_lowercase(normalized)
        filename   == file_name(lower)
        parts      == split_slash(normalized)
    IN  IF /\ starts_with(lower, S_data_characters_slash)
           /\ ~contains(lower, S_slash_animations_slash)
           /\ Len(parts) = 4
           /\ ends_with(to_lowercase(parts[4]), S_dot_bin)
           /\ to_lowercase(parts[4]) = to_lowercase(parts[3]) \o S_dot_bin
        THEN "ChampionRoot"
        ELSE IF filename = S_root_bin
        THEN "ChampionRoot"
        ELSE IF /\ starts_with(lower, S_data_characters_slash)
                /\ contains(lower, S_slash_animations_slash)
        THEN "Animation"
        ELSE "LinkedData"

\* is_asset_path
is_asset_path(s) ==
    LET lower == to_lowercase(s)
    IN  starts_with(lower, S_assets_slash) \/ starts_with(lower, S_data_slash)

\* normalize_path (also the inline to_lowercase().replace('\\', "/") of the callers)
normalize_path(s) == replace(to_lowercase(s), "\\", "/")

\* RepathConfig::prefix
prefix(cfg) ==
    replace(cfg.creator_name, " ", "-") \o <<"/">> \o replace(cfg.project_name, " ", "-")

\* apply_prefix_to_path altered: the remainder is taken from the lowercased path
apply_prefix_to_path_lower(path, pfx) ==
    LET lower == to_lowercase(path)
    IN  IF starts_with(lower, S_assets_slash) THEN S_ASSETS_slash \o pfx \o skip(lower, 6)
        ELSE IF starts_with(lower, S_data_slash) THEN S_ASSETS_slash \o pfx \o skip(lower, 4)
        ELSE S_ASSETS_slash \o pfx \o <<"/">> \o lower

\* apply_prefix_to_path
apply_prefix_to_path(path, pfx) ==
    LET lower == to_lowercase(path)
    IN  IF starts_with(lower, S_assets_slash) THEN S_ASSETS_slash \o pfx \o skip(path, 6)
        ELSE IF starts_with(lower, S_data_slash) THEN S_ASSETS_slash \o pfx \o skip(path, 4)
        ELSE S_ASSETS_slash \o pfx \o <<"/">> \o path

\* the concat path format! of create_concat_bin
concat_path_of(champion, creator_name, project_name) ==
    S_data_slash \o to_lowercase(champion) \o <<"_">> \o replace(creator_name, " ", "-")
        \o <<"_">> \o replace(project_name, " ", "-") \o S_Concat_suffix

\* the two candidate paths of the main skin tree
patterns(champion, skin_id) ==
    LET dir == S_data_characters_slash \o to_lowercase(champion) \o S_slash_skins_slash_skin
    IN  << dir \o Decimal(skin_id) \o S_dot_bin, dir \o Decimal02(skin_id) \o S_dot_bin >>

(***************************************************************************)
(* Property values.  A value is a record with a kind k:                    *)
(*   "string" (s), "container" / "unordered" / "struct" / "embedded"       *)
(*   (items), "optional" (items of length 0 or 1), "map" (entries: a       *)
(*   sequence of [key, val]) and "other" (a leaf that is not a string).    *)
(***************************************************************************)
RECURSIVE FlatSeq(_)
FlatSeq(ss) == IF ss = <<>> THEN <<>> ELSE Head(ss) \o FlatSeq(Tail(ss))

\* collect_paths_from_value: the normalized asset paths of a value, in visit order
RECURSIVE collect_paths_from_value(_)
collect_paths_from_value(v) ==
    CASE v.k = "string" ->
            IF is_asset_path(v.s) THEN <<normalize_path(v.s)>> ELSE <<>>
      [] v.k \in {"container", "unordered", "struct", "embedded", "optional"} ->
            FlatSeq([i \in 1..Len(v.items) |-> collect_paths_from_value(v.items[i])])
      [] v.k = "map" ->
            FlatSeq([i \in 1..Len(v.entries) |->
                        collect_paths_from_value(v.entries[i].key)
                            \o collect_paths_from_value(v.entries[i].val)])
      [] OTHER -> <<>>

\* repath_value_with_keys altered: the keys of a map are rewritten like its values
RECURSIVE repath_value_with_keys(_, _, _)
repath_value_with_keys(v, existing_paths, pfx) ==
    CASE v.k = "string" ->
            IF is_asset_path(v.s) /\ normalize_path(v.s) \in existing_paths
            THEN [v EXCEPT !.s = apply_prefix_to_path(v.s, pfx)]
            ELSE v
      [] v.k \in {"container", "unordered", "struct", "embedded", "optional"} ->
            [v EXCEPT !.items =
                [i \in 1..Len(v.items) |-> repath_value_with_keys(v.items[i], existing_paths, pfx)]]
      [] v.k = "map" ->
            [v EXCEPT !.entries =
                [i \in 1..Len(v.entries) |->
                    [key |-> repath_value_with_keys(v.entries[i].key, existing_paths, pfx),
                     val |-> repath_value_with_keys(v.entries[i].val, existing_paths, pfx)]]]
      [] OTHER -> v

\* repath_value: the value after rewriting (map keys are left as they are)
RECURSIVE repath_value(_, _, _)
repath_value(v, existing_paths, pfx) ==
    CASE v.k = "string" ->
            IF is_asset_path(v.s) /\ normalize_path(v.s) \in existing_paths
            THEN [v EXCEPT !.s = apply_prefix_to_path(v.s, pfx)]
            ELSE v
      [] v.k \in {"container", "unordered", "struct", "embedded", "optional"} ->
            [v EXCEPT !.items =
                [i \in 1..Len(v.items) |-> repath_value(v.items[i], existing_paths, pfx)]]
      [] v.k = "map" ->
            [v EXCEPT !.entries =
                [i \in 1..Len(v.entries) |->
                    [key |-> v.entries[i].key,
                     val |-> repath_value(v.entries[i].val, existing_paths, pfx)]]]
      [] OTHER -> v

RECURSIVE SumSeq(_)
SumSeq(ns) == IF ns = <<>> THEN 0 ELSE Head(ns) + SumSeq(Tail(ns))

\* the count repath_value returns: the number of strings it rewrites
RECURSIVE repath_count(_, _)
repath_count(v, existing_paths) ==
    CASE v.k = "string" ->
            IF is_asset_path(v.s) /\ normalize_path(v.s) \in existing_paths THEN 1 ELSE 0
      [] v.k \in {"container", "unordered", "struct", "embedded", "optional"} ->
            SumSeq([i \in 1..Len(v.items) |-> repath_count(v.items[i], existing_paths)])
      [] v.k = "map" ->
            SumSeq([i \in 1..Len(v.entries) |-> repath_count(v.entries[i].val, existing_paths)])
      [] OTHER -> 0
(***************************************************************************)
(* The project on disk.  fs maps each file's path (relative to the working *)
(* root) to its content: a parsed tree [t |-> "bin", deps, objects], a     *)
(* .bin file the parser rejects [t |-> "corrupt"], or an asset file        *)
(* [t |-> "asset", id].  A directory exists exactly when a file lies       *)
(* beneath it.  ci tells whether the platform's file system matches names  *)
(* without regard to case (Windows) or exactly (Linux).                    *)
(***************************************************************************)
VARIABLES
    fs,              \* path -> content
    ci,              \* the file system is case-insensitive
    readonly,        \* files whose removal and overwriting fail
    unreadable,      \* files whose reading and copying fail
    config,          \* OrganizerConfig
    path_mappings,   \* normalized logical path -> actual path (hash-named files)
    pc,              \* position inside organize_project
    run,             \* number of organize_project calls started
    main_bin_path,   \* organize_project: Option<PathBuf>
    concat,          \* concatenate_linked_bins: its ConcatResult under construction
    concat_result,   \* OrganizerResult.concat_result (Option)
    concat_outcome,  \* "none", "ok" or "err": how concatenate_linked_bins returned
    bin_files,       \* repath_project: Vec<PathBuf>
    existing_paths,  \* repath_project: HashSet<String>
    result,          \* repath_project: RepathResult under construction
    repath_result,   \* OrganizerResult.repath_result (Option)
    repath_outcome,  \* "none", "ok" or "err": how repath_project returned
    returned,        \* what organize_project returned: "none" while it runs
    fs_begin,        \* history: fs when the current call started
    fs_phase,        \* history: fs when repath_project started
    prev             \* history: the end of the previous call

organizer_vars == << fs, ci, readonly, unreadable, config, path_mappings, pc, run, main_bin_path,
           concat, concat_result, concat_outcome, bin_files, existing_paths, result,
           repath_result, repath_outcome, returned, fs_begin, fs_phase, prev >>

(***************************************************************************)
(* The state of the chunk extractor (core/wad/extractor.rs).  The archive  *)
(* is the list of its chunks in table order; the output directory is a     *)
(* disk of its own, path -> bytes written.                                 *)
(***************************************************************************)
VARIABLES
    chunks,            \* wad.decode(): the chunks of the archive, in order
    hashtable,         \* the Option<&Hashtable> argument
    extract_fn,        \* the function called: "none" before the call
    next_chunk,        \* position of the loop over chunks
    output,            \* the output directory: path -> bytes
    failing,           \* output paths whose write (file) or creation (directory) fails
    extracted_count,   \* extracted_count
    extract_mappings,  \* path_mappings of the ExtractionResult under construction
    extract_returned,  \* "none" while the call runs, then "ok" or "err"
    written            \* history: the writes made, [chunk, path] in order

extractor_vars == << chunks, hashtable, extract_fn, next_chunk, output, failing,
                     extracted_count, extract_mappings, extract_returned, written >>

(***************************************************************************)
(* The state of the hash store: the directory of hash files, a Hashtable   *)
(* a caller owns (core/hash/hashtable.rs) and the shared, lazily loaded    *)
(* one (state.rs).                                                         *)
(***************************************************************************)
VARIABLES
    hash_files,      \* the hash directory: None when it is missing, else file name -> content
    mappings,        \* Hashtable.mappings of the owned Hashtable, None before it is made
    lazy_hashtable,  \* LAZY_HASHTABLE: None until set, then its mappings
    hash_dir,        \* HashtableState.0: whether the directory path has been set
    hash_call,       \* history: the last call, its outcome, the mappings before it
    lookup,          \* history: the last lookup, None before the first
    edits            \* number of changes made to the directory

hash_vars == << hash_files, mappings, lazy_hashtable, hash_dir, hash_call, lookup, edits >>

(***************************************************************************)
(* The state of one download_hashes call (core/hash/downloader.rs): the    *)
(* remote repository as the requests see it, the output directory and the  *)
(* position of the call.                                                   *)
(***************************************************************************)
VARIABLES
    network,          \* what each request of the call meets: the listing and every file
    output_dir,       \* the output directory: file name -> "missing", "fresh" or "stale"
    force,            \* the force argument of the call
    download_pc,      \* "start", "files", "merge" or "done"
    next_file,        \* index into HASH_FILES of the next file of the loop
    stats,            \* DownloadStats of the running call
    attempted,        \* history: the files download_file was called for
    download_result   \* None while the call runs, then what it returned

download_vars == << network, output_dir, force, download_pc, next_file, stats, attempted, download_result >>

(***************************************************************************)
(* The state of the text cache of one BIN file (commands/bin.rs): the      *)
(* file <path>.bin, its sidecar <path>.bin.ritobin and the clock that      *)
(* stamps modification times.                                              *)
(***************************************************************************)
VARIABLES
    bin_file,         \* <path>.bin: None when it is missing, else its content and modification time
    ritobin_file,     \* <path>.bin.ritobin: whether it exists, its content and modification time, whether it can be written and read as text
    now,              \* the clock
    bin_read,         \* history: the last read_or_convert_bin call, None before the first
    bin_save          \* the save_ritobin_to_bin call: None before the first, else its position, argument and result

bin_vars == << bin_file, ritobin_file, now, bin_read, bin_save >>

(***************************************************************************)
(* The state of one use of the BIN codec (core/bin/ltk_bridge.rs): a tree  *)
(* to write, bytes to read, and what read_bin made of them.                *)
(***************************************************************************)
VARIABLES
    codec_tree,       \* the tree given to write_bin, None when bytes are read that no write_bin made
    codec_data,       \* the bytes: None before write_bin, else what write_bin returned or what was found on disk
    codec_result      \* None before read_bin, else what read_bin returned

codec_vars == << codec_tree, codec_data, codec_result >>

(***************************************************************************)
(* The state of the BIN classifier's use (core/bin/concat.rs): two paths   *)
(* and the categories classify_bin gave them.                              *)
(***************************************************************************)
VARIABLES
    classify_paths,   \* the two paths given to classify_bin
    categories        \* None before the calls, else the two categories

classify_vars == << classify_paths, categories >>

(***************************************************************************)
(* The state of project creation (commands/project.rs,                     *)
(* core/project/project.rs): the arguments and the environment of one      *)
(* create_project command, the directories below the output directory,     *)
(* and the command's position and result.                                  *)
(***************************************************************************)
VARIABLES
    create_args,     \* the arguments and what the command finds: hash table, League path, WAD
    project_dirs,    \* None when the output directory is missing, else directory name -> Option<entries>
    dirs_before,     \* history: project_dirs when the command was called
    create_pc,       \* position inside the create_project command
    created_project, \* Option: the directory name of the Project that core create_project returned
    create_result    \* None while the command runs, then "Ok" or "Err"

create_vars == << create_args, project_dirs, dirs_before, create_pc, created_project, create_result >>

\* the components outside the organizer
other_vars == << extractor_vars, hash_vars, download_vars, bin_vars, codec_vars, classify_vars, create_vars >>

vars == << organizer_vars, other_vars >>

\* Option<T>
None == <<>>
Some(x) == <<x>>

\* two names denote the same directory entry
same_entry(a, b) == IF ci THEN to_lowercase(a) = to_lowercase(b) ELSE a = b

is_file(f, p) == \E q \in DOMAIN f : same_entry(q, p)

is_dir(f, p) == p = <<>> \/ \E q \in DOMAIN f : \E a \in Ancestors(q) : same_entry(a, p)

\* Path::exists
exists(f, p) == is_file(f, p) \/ is_dir(f, p)

\* the stored path of the file p names
entry(f, p) == CHOOSE q \in DOMAIN f : same_entry(q, p)

\* fs::read succeeds
can_read(f, p) == is_file(f, p) /\ entry(f, p) \notin unreadable

\* fs::read
read(f, p) == f[entry(f, p)]

\* fs::write succeeds
can_write(f, p) == ~is_dir(f, p) /\ (is_file(f, p) => entry(f, p) \notin readonly)

\* fs::write (after create_dir_all of the parent)
write(f, p, c) == IF is_file(f, p) THEN [f EXCEPT ![entry(f, p)] = c] ELSE (p :> c) @@ f

\* fs::remove_file succeeds
can_remove(f, p) == is_file(f, p) /\ entry(f, p) \notin readonly

\* fs::remove_file
remove(f, p) == [q \in DOMAIN f \ {entry(f, p)} |-> f[q]]

\* read_bin succeeds on the bytes of a file
parses(c) == c.t = "bin"

\* the .bin files WalkDir yields (extension compared without regard to case)
bin_entries(f) == { q \in DOMAIN f : to_lowercase(extension(q)) = S_bin }

\* the names read_dir(dir) yields: the files and sub-directories directly in dir
dir_entry_names(f, dir) ==
    LET below == DOMAIN f \cup UNION { Ancestors(q) : q \in DOMAIN f }
    IN  { file_name(x) : x \in { y \in below : y # <<>> /\ same_entry(parent(y), dir) } }

(***************************************************************************)
(* Names, paths and strings of the modelled projects                       *)
(***************************************************************************)
N_champion == <<"K","a","y","n">>
N_creator == <<"S","i","r"," ","D","e","x","a","l">>
N_project == <<"M","y"," ","M","o","d">>
P_main == <<"d","a","t","a","/","c","h","a","r","a","c","t","e","r","s","/","k","a","y","n","/","s","k","i","n","s","/","s","k","i","n","0",".","b","i","n">>
P_main_mixed == <<"D","A","T","A","/","C","h","a","r","a","c","t","e","r","s","/","K","a","y","n","/","S","k","i","n","s","/","S","k","i","n","0",".","b","i","n">>
P_other_skin == <<"d","a","t","a","/","c","h","a","r","a","c","t","e","r","s","/","k","a","y","n","/","s","k","i","n","s","/","s","k","i","n","1",".","b","i","n">>
P_root == <<"d","a","t","a","/","c","h","a","r","a","c","t","e","r","s","/","k","a","y","n","/","k","a","y","n",".","b","i","n">>
P_anim == <<"d","a","t","a","/","c","h","a","r","a","c","t","e","r","s","/","k","a","y","n","/","a","n","i","m","a","t","i","o","n","s","/","s","k","i","n","0",".","b","i","n">>
P_l1 == <<"d","a","t","a","/","l","1",".","b","i","n">>
P_l2 == <<"d","a","t","a","/","l","2",".","b","i","n">>
P_l2_hashed == <<"d","a","t","a","/","0","f","3","a",".","b","i","n">>
P_stale == <<"d","a","t","a","/","o","l","d","_","_","c","o","n","c","a","t","_","v","1",".","b","i","n">>
D_main == <<"D","A","T","A","/","C","h","a","r","a","c","t","e","r","s","/","K","a","y","n","/","S","k","i","n","s","/","S","k","i","n","0",".","b","i","n">>
D_root == <<"D","A","T","A","/","C","h","a","r","a","c","t","e","r","s","/","K","a","y","n","/","K","a","y","n",".","b","i","n">>
D_anim == <<"D","A","T","A","/","C","h","a","r","a","c","t","e","r","s","/","K","a","y","n","/","A","n","i","m","a","t","i","o","n","s","/","S","k","i","n","0",".","b","i","n">>
D_anim_other == <<"D","A","T","A","/","C","h","a","r","a","c","t","e","r","s","/","K","a","y","n","/","A","n","i","m","a","t","i","o","n","s","/","S","k","i","n","1",".","b","i","n">>
D_l1 == <<"D","A","T","A","/","L","1",".","b","i","n">>
D_l2 == <<"D","A","T","A","/","L","2",".","b","i","n">>
P_tex == <<"a","s","s","e","t","s","/","c","h","a","r","a","c","t","e","r","s","/","k","a","y","n","/","s","k","i","n","s","/","s","k","i","n","0","/","k","a","y","n",".","t","e","x">>
P_tex_new == <<"A","S","S","E","T","S","/","S","i","r","-","D","e","x","a","l","/","M","y","-","M","o","d","/","c","h","a","r","a","c","t","e","r","s","/","k","a","y","n","/","s","k","i","n","s","/","s","k","i","n","0","/","k","a","y","n",".","t","e","x">>
P_a == <<"a","s","s","e","t","s","/","a",".","t","e","x">>
P_tex_mixed == <<"a","s","s","e","t","s","/","c","h","a","r","a","c","t","e","r","s","/","k","a","y","n","/","s","k","i","n","s","/","s","k","i","n","0","/","K","a","y","n",".","t","e","x">>
P_da == <<"d","a","t","a","/","a",".","t","e","x">>
P_u == <<"a","s","s","e","t","s","/","u",".","t","e","x">>
R_a == <<"A","S","S","E","T","S","/","A",".","t","e","x">>
R_m == <<"a","s","s","e","t","s","/","m",".","t","e","x">>
R_plain == <<"s","h","a","d","e","r","s","/","x",".","f","x">>
(***************************************************************************)
(* Trees and files of the modelled projects                                *)
(***************************************************************************)
Str(s) == [k |-> "string", s |-> s]
Other == [k |-> "other"]
Container(items) == [k |-> "container", items |-> items]
Optional(items) == [k |-> "optional", items |-> items]
Map(entries) == [k |-> "map", entries |-> entries]
Unordered(items) == [k |-> "unordered", items |-> items]
Struct(items) == [k |-> "struct", items |-> items]
Embedded(items) == [k |-> "embedded", items |-> items]

\* a tree: its dependency list and its objects (path digest -> property values)
Tree(deps, objects) == [t |-> "bin", deps |-> deps, objects |-> objects]
Corrupt == [t |-> "corrupt"]
Asset(id) == [t |-> "asset", id |-> id]

\* the function with the given set of <<argument, value>> pairs
FromPairs(pairs) ==
    [p \in { e[1] : e \in pairs } |-> (CHOOSE e \in pairs : e[1] = p)[2]]

T_main(deps) == Tree(deps, (1 :> <<Str(P_tex), Optional(<<Str(R_m)>>)>>))
T_root == Tree(<<>>, (4 :> <<Str(P_tex)>>))
T_anim == Tree(<<>>, (5 :> <<Other>>))
T_l1 == Tree(<<>>, (2 :> <<Container(<<Str(R_a), Other>>),
                           Struct(<<Embedded(<<Unordered(<<Optional(<<Str(R_a)>>)>>)>>)>>)>>))
T_l2 == Tree(<<>>, (2 :> <<Str(P_da)>>) @@ (3 :> <<Map(<<[key |-> Str(R_m), val |-> Str(P_a)],
                                                            [key |-> Str(P_a), val |-> Str(P_da)]>>),
                                                      Str(R_plain)>>))
T_other == Tree(<<>>, (6 :> <<Other>>))

\* the dependency lists of the main tree
DepLists ==
    { <<D_root, D_anim, D_l1, D_l2>>,
      <<D_l1, D_anim_other, D_root, D_anim>>,
      <<D_root, D_anim>>,
      <<D_main, D_l1>> }

MainStates == {"ok", "mixed", "corrupt", "absent"}
L2States == {"ok", "hashed", "corrupt", "absent"}
TexStates == {"lower", "mixed"}

\* the files of a project: the canonical skin project, with the main tree, the
\* second linked tree and one asset in the given states
ProjectFiles(deps, main_state, l2_state, tex_state) ==
    FromPairs(
        { <<P_root, T_root>>, <<P_anim, T_anim>>, <<P_l1, T_l1>>, <<P_other_skin, T_other>>,
          <<P_stale, T_other>>, <<P_a, Asset(2)>>, <<P_da, Asset(3)>>, <<P_u, Asset(4)>> }
        \cup (CASE main_state = "ok" -> { <<P_main, T_main(deps)>> }
                [] main_state = "mixed" -> { <<P_main_mixed, T_main(deps)>> }
                [] main_state = "corrupt" -> { <<P_main, Corrupt>> }
                [] OTHER -> {})
        \cup (CASE l2_state = "ok" -> { <<P_l2, T_l2>> }
                [] l2_state = "hashed" -> { <<P_l2_hashed, T_l2>> }
                [] l2_state = "corrupt" -> { <<P_l2, Corrupt>> }
                [] OTHER -> {})
        \cup (IF tex_state = "lower" THEN { <<P_tex, Asset(1)>> } ELSE { <<P_tex_mixed, Asset(1)>> }))

\* the files an I/O fault may hit
FaultCandidates == { P_main, P_l1, P_a, P_other_skin }

\* the number of organize_project calls a behaviour makes
MaxRuns == 2

NoConcat == [concat_path |-> <<>>, source_count |-> 0, entry_count |-> 0,
             collision_count |-> 0, source_paths |-> <<>>]

NoResult == [bins_processed |-> 0, paths_modified |-> 0, files_relocated |-> 0,
             files_removed |-> 0, missing_paths |-> {}]

NoPrev == [fs |-> <<>>, concat_result |-> None, repath_result |-> None,
           concat_outcome |-> "none", repath_outcome |-> "none"]

\* the codec is not in use
CodecIdle ==
    /\ codec_tree = <<>>
    /\ codec_data = <<>>
    /\ codec_result = <<>>

\* the classifier is not in use
ClassifyIdle ==
    /\ classify_paths = <<>>
    /\ categories = <<>>

\* no project is being created
CreateIdle ==
    /\ create_args = <<>>
    /\ project_dirs = <<>>
    /\ dirs_before = <<>>
    /\ create_pc = <<>>
    /\ created_project = <<>>
    /\ create_result = <<>>

\* no download has been asked for
DownloadIdle ==
    /\ network = <<>>
    /\ output_dir = <<>>
    /\ force = FALSE
    /\ download_pc = "done"
    /\ next_file = 0
    /\ stats = <<>>
    /\ attempted = {}
    /\ download_result = <<>>

\* no BIN file is open
BinIdle ==
    /\ bin_file = <<>>
    /\ ritobin_file = <<>>
    /\ now = 0
    /\ bin_read = <<>>
    /\ bin_save = <<>>

\* no call of the hash store has been made
NoCall == [op |-> "none", outcome |-> [kind |-> "none"], before |-> <<>>]

\* the hash store is not in use
HashIdle ==
    /\ hash_files = <<>>
    /\ mappings = <<>>
    /\ lazy_hashtable = <<>>
    /\ hash_dir = <<>>
    /\ hash_call = NoCall
    /\ lookup = <<>>
    /\ edits = 0

\* no extraction has been asked for
ExtractorIdle ==
    /\ chunks = <<>>
    /\ hashtable = <<>>
    /\ extract_fn = "none"
    /\ next_chunk = 0
    /\ output = <<>>
    /\ failing = {}
    /\ extracted_count = 0
    /\ extract_mappings = <<>>
    /\ extract_returned = "none"
    /\ written = <<>>

Init ==
    /\ ci \in BOOLEAN
    /\ \E deps \in DepLists, ms \in MainStates, ls \in L2States, ts \in TexStates :
          \* a project departs from the canonical one in at most one respect
          /\ Cardinality({ x \in 1..4 :
                 << deps # <<D_root, D_anim, D_l1, D_l2>>, ms # "ok", ls # "ok", ts # "lower" >>[x] }) <= 1
          /\ fs = ProjectFiles(deps, ms, ls, ts)
          /\ path_mappings = IF ls = "hashed"
                             THEN (normalize_path(D_l2) :> P_l2_hashed)
                             ELSE <<>>
    /\ \E ro \in SUBSET (FaultCandidates \cap DOMAIN fs), ur \in SUBSET (FaultCandidates \cap DOMAIN fs) :
          /\ Cardinality(ro) + Cardinality(ur) <= 1
          /\ readonly = ro
          /\ unreadable = ur
    /\ \E ec \in BOOLEAN, er \in BOOLEAN, cu \in BOOLEAN :
          config = [enable_concat |-> ec, enable_repath |-> er, cleanup_unused |-> cu,
                    creator_name |-> N_creator, project_name |-> N_project,
                    champion |-> N_champion, target_skin_id |-> 0]
    /\ pc = "idle"
    /\ run = 0
    /\ main_bin_path = None
    /\ concat = NoConcat
    /\ concat_result = None
    /\ concat_outcome = "none"
    /\ bin_files = <<>>
    /\ existing_paths = {}
    /\ result = NoResult
    /\ repath_result = None
    /\ repath_outcome = "none"
    /\ returned = "none"
    /\ fs_begin = fs
    /\ fs_phase = fs
    /\ prev = NoPrev
    /\ ExtractorIdle
    /\ HashIdle
    /\ DownloadIdle
    /\ BinIdle
    /\ CreateIdle
    /\ ClassifyIdle
    /\ CodecIdle
(***************************************************************************)
(* organizer.rs: organize_project                                          *)
(***************************************************************************)
\* Path::join
join(base, rel) == IF base = <<>> THEN rel ELSE base \o <<"/">> \o rel

\* the working root (file_base of organize_project and of repath_project)
file_base == <<>>

\* p lies beneath the directory dir
beneath(p, dir) ==
    /\ Len(p) > Len(dir) + 1
    /\ same_entry(SubSeq(p, 1, Len(dir)), dir)
    /\ p[Len(dir) + 1] = "/"

\* organizer.rs find_main_skin_bin: the values it can return (the one a
\* directory walk meets first depends on the order the file system lists in)
organizer_find_main_skin_bin(f, content_base, champion, skin_id) ==
    LET champion_lower == to_lowercase(champion)
        wad_path == join(content_base, champion_lower \o <<".","w","a","d",".","c","l","i","e","n","t">>)
        pats == patterns(champion, skin_id)
        in_wad == { i \in 1..2 : exists(f, join(wad_path, pats[i])) }
        wad_walk == { q \in bin_entries(f) :
                        /\ beneath(q, wad_path)
                        /\ \E i \in 1..2 : to_lowercase(skip(q, Len(wad_path) + 1)) = pats[i] }
        direct == { i \in 1..2 : exists(f, join(content_base, pats[i])) }
        walk == { q \in bin_entries(f) : \E i \in 1..2 : ends_with(to_lowercase(q), pats[i]) }
    IN  IF exists(f, wad_path) /\ wad_path # <<>> /\ in_wad # {}
        THEN { Some(join(wad_path, pats[CHOOSE i \in in_wad : \A j \in in_wad : i <= j])) }
        ELSE IF exists(f, wad_path) /\ wad_walk # {}
        THEN { Some(q) : q \in wad_walk }
        ELSE IF direct # {}
        THEN { Some(join(content_base, pats[CHOOSE i \in direct : \A j \in direct : i <= j])) }
        ELSE IF walk # {}
        THEN { Some(join(content_base, q)) : q \in walk }
        ELSE { None }

\* after_concat altered: organize_project gives up when concatenation fails
after_concat_abort(outcome) ==
    IF outcome = "err" THEN "return" ELSE IF config.enable_repath THEN "repath" ELSE "return"

\* where organize_project goes after the concat step ended with the given outcome
after_concat(outcome) == IF config.enable_repath THEN "repath" ELSE "return"

\* organize_project, lines 128-164: the call starts, finds the main skin tree and
\* decides whether the concat step runs.  A call after the first keeps the end of
\* the previous one for comparison.
OrganizeStart ==
    /\ pc \in {"idle", "done"}
    /\ run < MaxRuns
    /\ run' = run + 1
    /\ prev' = IF pc = "done"
               THEN [fs |-> fs, concat_result |-> concat_result, repath_result |-> repath_result,
                     concat_outcome |-> concat_outcome, repath_outcome |-> repath_outcome]
               ELSE prev
    /\ \E m \in (IF config.champion # <<>>
                 THEN organizer_find_main_skin_bin(fs, file_base, config.champion, config.target_skin_id)
                 ELSE { None }) :
          /\ main_bin_path' = m
          /\ pc' = IF config.enable_concat /\ m # None THEN "concat" ELSE after_concat("none")
    /\ concat' = NoConcat
    /\ concat_result' = None
    /\ concat_outcome' = "none"
    /\ bin_files' = <<>>
    /\ existing_paths' = {}
    /\ result' = NoResult
    /\ repath_result' = None
    /\ repath_outcome' = "none"
    /\ returned' = "none"
    /\ fs_begin' = fs
    /\ fs_phase' = fs
    /\ UNCHANGED other_vars
    /\ UNCHANGED << fs, ci, readonly, unreadable, config, path_mappings >>

\* organize_project, lines 220-221
OrganizeReturn ==
    /\ pc = "return"
    /\ pc' = "done"
    /\ returned' = "ok"
    /\ UNCHANGED other_vars
    /\ UNCHANGED << fs, ci, readonly, unreadable, config, path_mappings, run, main_bin_path,
                    concat, concat_result, concat_outcome, bin_files, existing_paths, result,
                    repath_result, repath_outcome, fs_begin, fs_phase, prev >>

(***************************************************************************)
(* concat.rs: concatenate_linked_bins                                      *)
(***************************************************************************)
\* the actual on-disk path of a logical path: through path_mappings, else itself
actual_path_of(normalized) ==
    IF normalized \in DOMAIN path_mappings THEN path_mappings[normalized] ELSE normalized

\* create_concat_bin, lines 146-213 altered: an object that is already in
\* all_objects is kept (first write wins)
RECURSIVE merge_sources_first_wins(_, _, _)
merge_sources_first_wins(f, paths, acc) ==
    IF paths = <<>> \/ acc.failed THEN acc
    ELSE LET normalized_path == normalize_path(Head(paths))
             actual_path == actual_path_of(normalized_path)
             full_path == join(file_base, actual_path)
         IN  IF ~exists(f, full_path) THEN merge_sources_first_wins(f, Tail(paths), acc)
             ELSE IF ~can_read(f, full_path) THEN [acc EXCEPT !.failed = TRUE]
             ELSE IF ~parses(read(f, full_path)) THEN merge_sources_first_wins(f, Tail(paths), acc)
             ELSE LET src == read(f, full_path).objects
                  IN  merge_sources_first_wins(f, Tail(paths),
                        [acc EXCEPT
                           !.collision_count = @ + Cardinality(DOMAIN src \cap DOMAIN acc.all_objects),
                           !.all_objects = acc.all_objects @@ src,
                           !.source_count = @ + 1,
                           !.processed_paths = Append(@, actual_path)])

\* create_concat_bin, lines 146-213: the loop over the LinkedData dependencies.
\* acc carries all_objects, collision_count, source_count, processed_paths and
\* failed (an fs::read error, which ends the function).
RECURSIVE merge_sources(_, _, _)
merge_sources(f, paths, acc) ==
    IF paths = <<>> \/ acc.failed THEN acc
    ELSE LET normalized_path == normalize_path(Head(paths))
             actual_path == actual_path_of(normalized_path)
             full_path == join(file_base, actual_path)
         IN  IF ~exists(f, full_path) THEN merge_sources(f, Tail(paths), acc)
             ELSE IF ~can_read(f, full_path) THEN [acc EXCEPT !.failed = TRUE]
             ELSE IF ~parses(read(f, full_path)) THEN merge_sources(f, Tail(paths), acc)
             ELSE LET src == read(f, full_path).objects
                  IN  merge_sources(f, Tail(paths),
                        [acc EXCEPT
                           !.collision_count = @ + Cardinality(DOMAIN src \cap DOMAIN acc.all_objects),
                           !.all_objects = src @@ acc.all_objects,
                           !.source_count = @ + 1,
                           !.processed_paths = Append(@, actual_path)])

\* update_main_bin_links altered: the categories are kept whole instead of their
\* first entries
update_main_bin_links_all(current_links, concat_path) ==
    LET IsRoot(p) == classify_bin(p) = "ChampionRoot"
        IsAnim(p) == classify_bin(p) = "Animation"
    IN  <<concat_path>> \o SelectSeq(current_links, IsRoot) \o SelectSeq(current_links, IsAnim)

\* update_main_bin_links: the new dependency list
update_main_bin_links(current_links, concat_path) ==
    LET IsRoot(p) == classify_bin(p) = "ChampionRoot"
        IsAnim(p) == classify_bin(p) = "Animation"
        type1 == SelectSeq(current_links, IsRoot)
        type2 == SelectSeq(current_links, IsAnim)
    IN  <<concat_path>>
            \o (IF type1 # <<>> THEN <<Head(type1)>> ELSE <<>>)
            \o (IF type2 # <<>> THEN <<Head(type2)>> ELSE <<>>)

\* concatenate_linked_bins returns Err: organize_project logs it and goes on
ConcatFail ==
    /\ concat_outcome' = "err"
    /\ concat_result' = None
    /\ pc' = after_concat("err")

\* concatenate_linked_bins, lines 319-330: load the main tree, then
\* create_concat_bin: merge the LinkedData dependencies and save the concat tree
ConcatCreate ==
    /\ pc = "concat"
    /\ LET main_path == main_bin_path[1]
           IsLinked(p) == classify_bin(p) = "LinkedData"
       IN  IF ~can_read(fs, main_path) \/ ~parses(read(fs, main_path))
           THEN ConcatFail /\ UNCHANGED << fs, concat >>
           ELSE LET type3_paths == SelectSeq(read(fs, main_path).deps, IsLinked)
                    acc == merge_sources(fs, type3_paths,
                              [all_objects |-> <<>>, collision_count |-> 0, source_count |-> 0,
                               processed_paths |-> <<>>, failed |-> FALSE])
                    concat_path == concat_path_of(config.champion, config.creator_name,
                                                  config.project_name)
                    concat_full_path == join(file_base, concat_path)
                IN  IF type3_paths = <<>> \/ acc.failed \/ ~can_write(fs, concat_full_path)
                    THEN ConcatFail /\ UNCHANGED << fs, concat >>
                    ELSE /\ fs' = write(fs, concat_full_path, Tree(<<>>, acc.all_objects))
                         /\ concat' = [concat_path |-> concat_path,
                                       source_count |-> acc.source_count,
                                       entry_count |-> Cardinality(DOMAIN acc.all_objects),
                                       collision_count |-> acc.collision_count,
                                       source_paths |-> acc.processed_paths]
                         /\ pc' = "concat_update"
                         /\ UNCHANGED << concat_result, concat_outcome >>
    /\ UNCHANGED other_vars
    /\ UNCHANGED << ci, readonly, unreadable, config, path_mappings, run, main_bin_path,
                    bin_files, existing_paths, result, repath_result, repath_outcome,
                    returned, fs_begin, fs_phase, prev >>

\* concatenate_linked_bins, lines 334-349: re-read the main tree, rewrite its
\* dependency list and write it back
ConcatUpdateMain ==
    /\ pc = "concat_update"
    /\ LET main_path == main_bin_path[1]
       IN  IF ~can_read(fs, main_path) \/ ~parses(read(fs, main_path)) \/ ~can_write(fs, main_path)
           THEN ConcatFail /\ UNCHANGED fs
           ELSE /\ fs' = write(fs, main_path,
                            [read(fs, main_path) EXCEPT
                                !.deps = update_main_bin_links(@, concat.concat_path)])
                /\ pc' = "concat_delete"
                /\ UNCHANGED << concat_result, concat_outcome >>
    /\ UNCHANGED other_vars
    /\ UNCHANGED << ci, readonly, unreadable, config, path_mappings, run, main_bin_path, concat,
                    bin_files, existing_paths, result, repath_result, repath_outcome,
                    returned, fs_begin, fs_phase, prev >>

\* delete_sources altered: the deletion stops at the first source that cannot be
\* deleted
RECURSIVE delete_sources_all(_, _)
delete_sources_all(f, source_paths) ==
    IF source_paths = <<>> THEN f
    ELSE LET full_path == join(file_base, Head(source_paths))
         IN  IF exists(f, full_path) /\ can_remove(f, full_path)
             THEN delete_sources_all(remove(f, full_path), Tail(source_paths))
             ELSE f

\* concatenate_linked_bins, lines 354-370: delete the merged sources; a source
\* that cannot be deleted is logged
RECURSIVE delete_sources(_, _)
delete_sources(f, source_paths) ==
    IF source_paths = <<>> THEN f
    ELSE LET full_path == join(file_base, Head(source_paths))
         IN  IF exists(f, full_path) /\ can_remove(f, full_path)
             THEN delete_sources(remove(f, full_path), Tail(source_paths))
             ELSE delete_sources(f, Tail(source_paths))

\* concatenate_linked_bins, lines 351-373, and organize_project, lines 174-181
ConcatDeleteSources ==
    /\ pc = "concat_delete"
    /\ fs' = delete_sources(fs, concat.source_paths)
    /\ concat_outcome' = "ok"
    /\ concat_result' = Some(concat)
    /\ pc' = after_concat("ok")
    /\ UNCHANGED other_vars
    /\ UNCHANGED << ci, readonly, unreadable, config, path_mappings, run, main_bin_path, concat,
                    bin_files, existing_paths, result, repath_result, repath_outcome,
                    returned, fs_begin, fs_phase, prev >>
(***************************************************************************)
(* refather.rs: repath_project                                             *)
(***************************************************************************)
\* refather.rs find_main_skin_bin: the values it can return
find_main_skin_bin(f, content_base, champion, skin_id) ==
    LET pats == patterns(champion, skin_id)
        direct == { i \in 1..2 : exists(f, join(content_base, pats[i])) }
        walk == { q \in bin_entries(f) : \E i \in 1..2 : to_lowercase(q) = pats[i] }
    IN  IF direct # {}
        THEN { Some(join(content_base, pats[CHOOSE i \in direct : \A j \in direct : i <= j])) }
        ELSE IF walk # {}
        THEN { Some(join(content_base, q)) : q \in walk }
        ELSE { None }

\* the elements of a sequence
Range(seq) == { seq[i] : i \in 1..Len(seq) }

\* the sequences that list each element of a finite set once
RECURSIVE Orders(_)
Orders(S) ==
    IF S = {} THEN { <<>> }
    ELSE UNION { { <<x>> \o s : s \in Orders(S \ {x}) } : x \in S }

\* one of them
RECURSIVE SetToSeq(_)
SetToSeq(S) ==
    IF S = {} THEN <<>>
    ELSE LET x == CHOOSE y \in S : TRUE IN <<x>> \o SetToSeq(S \ {x})

\* repath_project, lines 108-121: the dependencies of the main tree found on disk
RECURSIVE linked_bin_files(_, _)
linked_bin_files(f, deps) ==
    IF deps = <<>> THEN <<>>
    ELSE LET normalized_path == normalize_path(Head(deps))
             full_path == join(file_base, actual_path_of(normalized_path))
         IN  (IF exists(f, full_path) THEN <<full_path>> ELSE <<>>)
                 \o linked_bin_files(f, Tail(deps))

\* scan_bin_for_paths: the asset paths a tree file refers to, none when the file
\* cannot be read or parsed
scan_bin_for_paths(f, bin_path) ==
    IF ~can_read(f, bin_path) \/ ~parses(read(f, bin_path)) THEN {}
    ELSE LET objects == read(f, bin_path).objects
         IN  UNION { UNION { Range(collect_paths_from_value(objects[o][i])) :
                             i \in 1..Len(objects[o]) } : o \in DOMAIN objects }

\* repath_project, lines 157-181: the path names a file on disk, either as it
\* is or through a parent directory entry with the same lowercased name
path_on_disk(f, path) ==
    LET full_path == join(file_base, path)
    IN  \/ exists(f, full_path)
        \/ /\ exists(f, parent(full_path))
           /\ \E n \in dir_entry_names(f, parent(full_path)) :
                 to_lowercase(n) = to_lowercase(file_name(full_path))

\* repath_project returns Err: organize_project logs it and returns
RepathFail ==
    /\ repath_outcome' = "err"
    /\ repath_result' = None
    /\ pc' = "return"

\* fallback_bin_files altered: without a main skin tree the working set is empty
fallback_bin_files_none(f) == <<>>

\* the working set when no main skin tree is found
fallback_bin_files(f) == SetToSeq(bin_entries(f))

\* repath_project, lines 59-199: choose the working set of trees, scan it for
\* asset paths and sort them into existing and missing
RepathCollect ==
    /\ pc = "repath"
    /\ fs_phase' = fs
    /\ IF ~exists(fs, file_base)
       THEN RepathFail /\ UNCHANGED << bin_files, existing_paths, result >>
       ELSE \E m \in (IF config.champion # <<>>
                      THEN find_main_skin_bin(fs, file_base, config.champion, config.target_skin_id)
                      ELSE { None }) :
              LET files == IF m # None
                           THEN <<m[1]>> \o
                                (IF can_read(fs, m[1]) /\ parses(read(fs, m[1]))
                                 THEN linked_bin_files(fs, read(fs, m[1]).deps)
                                 ELSE <<>>)
                           ELSE fallback_bin_files(fs)
                  all_asset_paths == UNION { scan_bin_for_paths(fs, b) : b \in Range(files) }
                  existing == { p \in all_asset_paths : path_on_disk(fs, p) }
              IN  /\ bin_files' = files
                  /\ existing_paths' = existing
                  /\ result' = [result EXCEPT !.missing_paths = all_asset_paths \ existing]
                  /\ pc' = "repath_bins"
                  /\ UNCHANGED << repath_outcome, repath_result >>
    /\ UNCHANGED other_vars
    /\ UNCHANGED << fs, ci, readonly, unreadable, config, path_mappings, run, main_bin_path,
                    concat, concat_result, concat_outcome, returned, fs_begin, prev >>

\* the tree after repath_bin_file rewrote its strings
repath_tree(tree, existing, pfx) ==
    [tree EXCEPT !.objects =
        [o \in DOMAIN tree.objects |->
            [i \in 1..Len(tree.objects[o]) |-> repath_value(tree.objects[o][i], existing, pfx)]]]

\* modified_count of repath_bin_file: the strings of the tree that get rewritten
modified_count(tree, existing) ==
    LET ds == SetToSeq(DOMAIN tree.objects)
    IN  SumSeq([d \in 1..Len(ds) |->
                  SumSeq([i \in 1..Len(tree.objects[ds[d]]) |->
                            repath_count(tree.objects[ds[d]][i], existing)])])

\* repath_project, lines 203-213, with repath_bin_file: rewrite each tree of the
\* working set in turn; a tree that cannot be read, parsed or written is logged.
\* acc carries the file system, bins_processed and paths_modified.
RECURSIVE repath_bin_files(_, _, _, _)
repath_bin_files(files, existing, pfx, acc) ==
    IF files = <<>> THEN acc
    ELSE LET bin_path == Head(files)
             f == acc.fs
         IN  IF ~can_read(f, bin_path) \/ ~parses(read(f, bin_path))
             THEN repath_bin_files(Tail(files), existing, pfx, acc)
             ELSE LET n == modified_count(read(f, bin_path), existing)
                  IN  IF n > 0 /\ ~can_write(f, bin_path)
                      THEN repath_bin_files(Tail(files), existing, pfx, acc)
                      ELSE repath_bin_files(Tail(files), existing, pfx,
                              [fs |-> IF n > 0
                                      THEN write(f, bin_path, repath_tree(read(f, bin_path), existing, pfx))
                                      ELSE f,
                               bins_processed |-> acc.bins_processed + 1,
                               paths_modified |-> acc.paths_modified + n])

\* repath_project, step 4
RepathBins ==
    /\ pc = "repath_bins"
    /\ LET acc == repath_bin_files(bin_files, existing_paths, prefix(config),
                     [fs |-> fs, bins_processed |-> 0, paths_modified |-> 0])
       IN  /\ fs' = acc.fs
           /\ result' = [result EXCEPT !.bins_processed = acc.bins_processed,
                                       !.paths_modified = acc.paths_modified]
    /\ pc' = "relocate"
    /\ UNCHANGED other_vars
    /\ UNCHANGED << ci, readonly, unreadable, config, path_mappings, run, main_bin_path,
                    concat, concat_result, concat_outcome, bin_files, existing_paths,
                    repath_result, repath_outcome, returned, fs_begin, fs_phase, prev >>

\* fs::create_dir_all succeeds: no file stands where a directory is needed
can_create_dir_all(f, dir) == ~is_file(f, dir) /\ \A a \in Ancestors(dir) : ~is_file(f, a)

\* fs::copy succeeds
can_copy(f, source, dest) == can_read(f, source) /\ can_write(f, dest)

\* relocate_assets: move the existing non-BIN assets, in the order the hash set
\* yields them.  acc carries the file system, relocated and failed (the first
\* I/O error ends the function).
RECURSIVE relocate_assets(_, _, _)
relocate_assets(order, pfx, acc) ==
    IF order = <<>> \/ acc.failed THEN acc
    ELSE LET path == Head(order)
             f == acc.fs
             source == join(file_base, path)
             dest == join(file_base, apply_prefix_to_path(path, pfx))
         IN  IF ends_with(to_lowercase(path), S_dot_bin)
             THEN relocate_assets(Tail(order), pfx, acc)
             ELSE IF ~can_create_dir_all(f, parent(dest))
             THEN [acc EXCEPT !.failed = TRUE]
             ELSE IF ~exists(f, source)
             THEN relocate_assets(Tail(order), pfx, acc)
             ELSE IF ~can_copy(f, source, dest)
             THEN [acc EXCEPT !.failed = TRUE]
             ELSE IF ~can_remove(f, source)
             THEN [acc EXCEPT !.fs = write(f, dest, read(f, source)), !.failed = TRUE]
             ELSE relocate_assets(Tail(order), pfx,
                     [acc EXCEPT !.fs = remove(write(f, dest, read(f, source)), source),
                                 !.relocated = @ + 1])

\* repath_project, step 5
RelocateAssets ==
    /\ pc = "relocate"
    /\ \E order \in Orders(existing_paths) :
          LET acc == relocate_assets(order, prefix(config),
                        [fs |-> fs, relocated |-> 0, failed |-> FALSE])
          IN  /\ fs' = acc.fs
              /\ IF acc.failed
                 THEN RepathFail /\ UNCHANGED result
                 ELSE /\ result' = [result EXCEPT !.files_relocated = acc.relocated]
                      /\ pc' = "cleanup_unused"
                      /\ UNCHANGED << repath_outcome, repath_result >>
    /\ UNCHANGED other_vars
    /\ UNCHANGED << ci, readonly, unreadable, config, path_mappings, run, main_bin_path,
                    concat, concat_result, concat_outcome, bin_files, existing_paths,
                    returned, fs_begin, fs_phase, prev >>

\* the function f without the arguments in S
without(f, S) == [q \in DOMAIN f \ S |-> f[q]]

\* cleanup_unused_files: the files it removes
unused_files(f, referenced_paths, pfx) ==
    LET expected_paths == { normalize_path(apply_prefix_to_path(p, pfx)) : p \in referenced_paths }
    IN  { q \in DOMAIN f :
            /\ to_lowercase(extension(q)) # S_bin
            /\ normalize_path(q) \notin expected_paths
            /\ can_remove(f, q) }

\* repath_project, step 6
CleanupUnused ==
    /\ pc = "cleanup_unused"
    /\ IF config.cleanup_unused
       THEN LET gone == unused_files(fs, existing_paths, prefix(config))
            IN  /\ fs' = without(fs, gone)
                /\ result' = [result EXCEPT !.files_removed = Cardinality(gone)]
       ELSE UNCHANGED << fs, result >>
    /\ pc' = "cleanup_bins"
    /\ UNCHANGED other_vars
    /\ UNCHANGED << ci, readonly, unreadable, config, path_mappings, run, main_bin_path,
                    concat, concat_result, concat_outcome, bin_files, existing_paths,
                    repath_result, repath_outcome, returned, fs_begin, fs_phase, prev >>

\* whitelisted altered: every tree below a skins or an animations folder is kept
whitelisted_any_skin(rel_path, target_skin_id) ==
    LET rel_str == normalize_path(rel_path)
        filename == to_lowercase(file_name(rel_path))
    IN  \/ contains(filename, S_concat_marker)
        \/ contains(rel_str, S_slash_skins_slash)
        \/ contains(rel_str, S_slash_animations_slash)

\* cleanup_irrelevant_bins: the whitelist of tree files that are kept
whitelisted(rel_path, target_skin_id) ==
    LET rel_str == normalize_path(rel_path)
        filename == to_lowercase(file_name(rel_path))
        target_skin_name == S_skin \o Decimal(target_skin_id) \o S_dot_bin
        target_skin_name_padded == S_skin \o Decimal02(target_skin_id) \o S_dot_bin
    IN  \/ contains(filename, S_concat_marker)
        \/ /\ contains(rel_str, S_slash_skins_slash)
           /\ filename \in { target_skin_name, target_skin_name_padded }
        \/ /\ contains(rel_str, S_slash_animations_slash)
           /\ filename \in { target_skin_name, target_skin_name_padded }

\* cleanup_irrelevant_bins: the files it removes
irrelevant_bins(f, target_skin_id) ==
    { q \in bin_entries(f) : ~whitelisted(q, target_skin_id) /\ can_remove(f, q) }

\* repath_project, steps 7 and 8 and the return of Ok(result), and
\* organize_project, lines 206-213.  cleanup_empty_dirs removes the directories
\* left without files, which the model does not keep.
CleanupBins ==
    /\ pc = "cleanup_bins"
    /\ fs' = without(fs, irrelevant_bins(fs, config.target_skin_id))
    /\ repath_outcome' = "ok"
    /\ repath_result' = Some(result)
    /\ pc' = "return"
    /\ UNCHANGED other_vars
    /\ UNCHANGED << ci, readonly, unreadable, config, path_mappings, run, main_bin_path,
                    concat, concat_result, concat_outcome, bin_files, existing_paths, result,
                    returned, fs_begin, fs_phase, prev >>

Next ==
    \/ OrganizeStart
    \/ ConcatCreate
    \/ ConcatUpdateMain
    \/ ConcatDeleteSources
    \/ RepathCollect
    \/ RepathBins
    \/ RelocateAssets
    \/ CleanupUnused
    \/ CleanupBins
    \/ OrganizeReturn

Spec == Init /\ [][Next]_vars
(***************************************************************************)
(* Properties                                                              *)
(***************************************************************************)
\* the concat tree's path and the namespace for creator "Sir Dexal", project "My Mod"
P_concat == <<"d","a","t","a","/","k","a","y","n","_","S","i","r","-","D","e","x","a","l","_","M","y","-","M","o","d","_","_","C","o","n","c","a","t",".","b","i","n">>
P_namespace == <<"A","S","S","E","T","S","/","S","i","r","-","D","e","x","a","l","/","M","y","-","M","o","d">>

\* the positions of organize_project inside concatenate_linked_bins
ConcatPcs == {"concat", "concat_update", "concat_delete"}

\* the positions of organize_project inside repath_project
RepathPcs == {"repath", "repath_bins", "relocate", "cleanup_unused", "cleanup_bins"}

\* repath_project has started in the current call
RepathStarted == pc \in RepathPcs \ {"repath"} \/ repath_outcome # "none"

\* concatenate_linked_bins has just returned and repath_project has not started
ConcatJustReturned ==
    concat_outcome # "none" /\ pc \in {"repath", "return"} /\ repath_outcome = "none"

\* C1: with enable_concat and enable_repath both on, concatenate_linked_bins has
\* returned before repath_project starts and nothing of it runs afterwards: what
\* repath_project finds on disk when it starts already shows the concat tree
\* written, the main tree's dependency list rewritten and the sources deleted;
\* and when concatenation returns an error, repath_project still runs and
\* organize_project returns Ok with concat_result = None.
C1_ConcatBeforeRepath ==
    (config.enable_concat /\ config.enable_repath) =>
        /\ (pc \in ConcatPcs) =>
              repath_outcome = "none" /\ bin_files = <<>> /\ returned = "none"
        /\ (RepathStarted /\ main_bin_path # None) => concat_outcome \in {"ok", "err"}
        /\ (RepathStarted /\ concat_outcome = "ok") =>
              /\ \A sp \in Range(concat.source_paths) :
                    is_file(fs_phase, sp) => entry(fs_phase, sp) \in readonly
              /\ is_file(fs_phase, main_bin_path[1]) =>
                    Head(read(fs_phase, main_bin_path[1]).deps) = P_concat
              /\ (\A sp \in Range(concat.source_paths) : ~same_entry(sp, P_concat)) =>
                    /\ is_file(fs_phase, P_concat)
                    /\ read(fs_phase, P_concat).deps = <<>>
                    /\ concat.entry_count = Cardinality(DOMAIN read(fs_phase, P_concat).objects)
        /\ (returned = "ok" /\ concat_outcome = "err") =>
              repath_outcome # "none" /\ concat_result = None
        /\ (returned = "ok" /\ main_bin_path = None) =>
              repath_outcome # "none" /\ concat_result = None

\* C1 witness: a call with both switches on whose concatenation failed and whose
\* repath ran to its end
C1_Witness ==
    /\ config.enable_concat /\ config.enable_repath
    /\ returned = "ok" /\ concat_outcome = "err" /\ repath_outcome = "ok"
    /\ concat_result = None /\ repath_result # None

\* the least element of a non-empty set of positions
Least(S) == CHOOSE i \in S : \A j \in S : i <= j

\* the first dependency of a list that classify_bin puts in the given category, if any
FirstOf(deps, category) ==
    LET at == { i \in 1..Len(deps) : classify_bin(deps[i]) = category }
    IN  IF at = {} THEN <<>> ELSE << deps[Least(at)] >>

\* the main tree's dependency list when the current call began, and now
MainDepsBefore == read(fs_begin, main_bin_path[1]).deps
MainDepsNow == read(fs, main_bin_path[1]).deps

\* concatenate_linked_bins has just returned Ok and the main tree is still a file
ConcatDoneMainOnDisk ==
    /\ ConcatJustReturned /\ concat_outcome = "ok"
    /\ is_file(fs, main_bin_path[1])

\* C2 as stated: after a successful concatenation the main tree's dependency list
\* is the concat path, then the first ChampionRoot dependency of the old list,
\* then its first Animation dependency, and no LinkedData dependency remains in it.
C2_NoLinkedDataRemains ==
    ConcatDoneMainOnDisk =>
        /\ MainDepsNow = <<P_concat>> \o FirstOf(MainDepsBefore, "ChampionRoot")
                                      \o FirstOf(MainDepsBefore, "Animation")
        /\ \A i \in 1..Len(MainDepsNow) : classify_bin(MainDepsNow[i]) # "LinkedData"

\* C2 amended: after a successful concatenation the main tree's dependency list
\* is the concat path, then the first ChampionRoot dependency of the old list,
\* then its first Animation dependency; the concat path is itself a LinkedData
\* dependency, and it is the only one that remains.
C2_OnlyConcatLinkedData ==
    ConcatDoneMainOnDisk =>
        /\ MainDepsNow = <<P_concat>> \o FirstOf(MainDepsBefore, "ChampionRoot")
                                      \o FirstOf(MainDepsBefore, "Animation")
        /\ classify_bin(MainDepsNow[1]) = "LinkedData"
        /\ \A i \in 2..Len(MainDepsNow) : classify_bin(MainDepsNow[i]) # "LinkedData"

\* C2 witness: a successful concatenation of a list holding two Animation
\* dependencies, the first of them ahead of the ChampionRoot dependency
C2_Witness ==
    /\ ConcatDoneMainOnDisk
    /\ MainDepsBefore = <<D_l1, D_anim_other, D_root, D_anim>>
    /\ MainDepsNow = <<P_concat, D_root, D_anim_other>>

\* the LinkedData dependencies of a dependency list, in order
LinkedOf(deps) ==
    LET IsLinked(p) == classify_bin(p) = "LinkedData" IN SelectSeq(deps, IsLinked)

\* the current call is a second run of the Concatenator on its own output: the
\* previous call concatenated successfully, and when this call began the main
\* tree's only LinkedData dependency was the concat file that call wrote
SecondConcatOnOwnOutput ==
    /\ run >= 2 /\ prev.concat_outcome = "ok"
    /\ main_bin_path # None
    /\ is_file(fs_begin, main_bin_path[1]) /\ parses(read(fs_begin, main_bin_path[1]))
    /\ LinkedOf(MainDepsBefore) = <<P_concat>>
    /\ is_file(fs_begin, P_concat) /\ parses(read(fs_begin, P_concat))

\* C3: running concatenate_linked_bins again on a main tree whose only
\* LinkedData dependency is the concat file of the previous run leaves a concat
\* file on disk whose object set equals the previous one.
C3_ConcatIdempotent ==
    (SecondConcatOnOwnOutput /\ ConcatJustReturned) =>
        /\ is_file(fs, P_concat) /\ parses(read(fs, P_concat))
        /\ read(fs, P_concat).objects = read(fs_begin, P_concat).objects

\* the current call is a second run of the Refather: the previous call's
\* repath_project returned Ok
SecondRepath == run >= 2 /\ prev.repath_outcome = "ok"

\* C4: a second repath_project over an already rewritten project, with the same
\* configuration and mappings, returns paths_modified = 0, relocates no file,
\* removes no file and leaves the disk state unchanged.
C4_RepathIdempotent ==
    (SecondRepath /\ repath_outcome = "ok") =>
        /\ result.paths_modified = 0
        /\ result.files_relocated = 0
        /\ result.files_removed = 0
        /\ fs = fs_phase

\* the non-BIN files of a file system
asset_entries(f) == { q \in DOMAIN f : to_lowercase(extension(q)) # S_bin }

\* the part of a path after its first segment
AfterFirstSegment(p) ==
    LET at == { i \in 1..Len(p) : p[i] = "/" }
    IN  IF at = {} THEN <<>> ELSE skip(p, Least(at))

\* where the Refather is to put the file of a path: under the project's
\* namespace, the first segment of the path dropped
NewLocation(p) == P_namespace \o <<"/">> \o AfterFirstSegment(p)

\* some tree of the working set names the file
NamedByWorkingSet(q) == to_lowercase(q) \in existing_paths \cup result.missing_paths

\* C5: every non-BIN file present under the working root before repath_project
\* exists at its new, prefixed location after repath_project returns, or is
\* listed in missing_paths.  Stated for the files the working set names, which
\* are the ones the Refather moves, for a call that returned a result, and with
\* the new location compared without regard to case.
C5_AssetsPreserved ==
    repath_outcome = "ok" =>
        \A q \in asset_entries(fs_phase) :
            NamedByWorkingSet(q) =>
                \/ \E r \in asset_entries(fs) : to_lowercase(r) = to_lowercase(NewLocation(q))
                \/ to_lowercase(q) \in result.missing_paths

\* the strings of a value paired with the strings at the same places of the
\* value it became (the two have the same shape)
RECURSIVE StringPairs(_, _)
StringPairs(old, new) ==
    CASE old.k = "string" -> { <<old.s, new.s>> }
      [] old.k \in {"container", "unordered", "struct", "embedded", "optional"} ->
            UNION { StringPairs(old.items[i], new.items[i]) : i \in 1..Len(old.items) }
      [] old.k = "map" ->
            UNION { StringPairs(old.entries[i].key, new.entries[i].key)
                        \cup StringPairs(old.entries[i].val, new.entries[i].val) :
                    i \in 1..Len(old.entries) }
      [] OTHER -> {}

\* the strings of a tree paired with what they are in a later version of it
TreeStringPairs(old, new) ==
    UNION { UNION { StringPairs(old.objects[o][i], new.objects[o][i]) :
                    i \in 1..Len(old.objects[o]) } : o \in DOMAIN old.objects }

\* every string of every tree that repath_project found and that is still on
\* disk, paired with what it is now
RewrittenPairs ==
    UNION { TreeStringPairs(fs_phase[b], fs[b]) :
            b \in { x \in bin_entries(fs_phase) \cap bin_entries(fs) :
                      parses(fs_phase[x]) /\ parses(fs[x]) } }

\* a file or directory of the file system has this path, case disregarded
FoundOnDisk(f, p) ==
    \E q \in DOMAIN f \cup UNION { Ancestors(x) : x \in DOMAIN f } :
        to_lowercase(q) = to_lowercase(p)

\* repath_project has rewritten the trees in the current call
TreesRewritten == pc \in {"relocate", "cleanup_unused", "cleanup_bins"} \/ repath_outcome # "none"

\* C6: the rewritten form of a string is ASSETS/<creator>/<project>, with the
\* spaces of the names turned into dashes, followed by the original string with
\* its leading assets/ or data/ segment removed and the case of the remainder
\* kept; a string is rewritten only if its normalized form is among the paths
\* found on disk.
C6_RewrittenForm ==
    TreesRewritten =>
        \A pair \in RewrittenPairs :
            pair[2] # pair[1] =>
                /\ \/ starts_with(to_lowercase(pair[1]), S_assets_slash)
                   \/ starts_with(to_lowercase(pair[1]), S_data_slash)
                /\ pair[2] = NewLocation(pair[1])
                /\ FoundOnDisk(fs_phase, pair[1])

\* C6 witness: for creator "Sir Dexal" and project "My Mod" the main tree's
\* assets/characters/kayn/skins/skin0/kayn.tex has become
\* ASSETS/Sir-Dexal/My-Mod/characters/kayn/skins/skin0/kayn.tex, while the string
\* of a file that is not on disk is as it was
C6_Witness ==
    /\ TreesRewritten /\ run = 1
    /\ is_file(fs_phase, P_main) /\ is_file(fs, P_main)
    /\ <<P_tex, P_tex_new>> \in RewrittenPairs
    /\ <<R_a, P_namespace \o <<"/", "A", ".", "t", "e", "x">> >> \in RewrittenPairs
    /\ <<R_m, R_m>> \in RewrittenPairs

\* the entries of a file system that a later one no longer has
Deleted(before, after) == { q \in DOMAIN before : ~is_file(after, q) }

MainNotLocated ==
    /\ RepathStarted
    /\ \A q \in bin_entries(fs_phase) :
          to_lowercase(q) \notin Range(patterns(config.champion, config.target_skin_id))

\* an asset that repath_project is to move cannot be read or cannot be removed
RelocationFaulty ==
    \E p \in existing_paths :
        is_file(fs_phase, p) /\ entry(fs_phase, p) \in readonly \cup unreadable

C9_RelocationFailureLocal ==
    (repath_outcome # "none" /\ RelocationFaulty) =>
        /\ repath_outcome = "ok"
        /\ \A p \in existing_paths :
              (/\ ~ends_with(to_lowercase(p), S_dot_bin)
               /\ is_file(fs_phase, p)
               /\ entry(fs_phase, p) \notin readonly \cup unreadable)
                  => \E r \in asset_entries(fs) : to_lowercase(r) = to_lowercase(NewLocation(p))

\* a .bin path names a tree file of the target skin (skin 0): skin0.bin or
\* skin00.bin, in a folder below a skins folder or an animations folder
SkinFileOfTarget(q) ==
    /\ to_lowercase(file_name(q)) \in { <<"s","k","i","n","0",".","b","i","n">>, <<"s","k","i","n","0","0",".","b","i","n">> }
    /\ \E i \in 2..(Len(split_slash(q)) - 1) :
          to_lowercase(split_slash(q)[i]) \in { <<"s","k","i","n","s">>, <<"a","n","i","m","a","t","i","o","n","s">> }

\* a file of the file system could not be removed
Undeletable(q) == q \in readonly

LimbBase == 65536

\* the u64 of a number below 2^31
U64(n) == << 0, 0, n \div LimbBase, n % LimbBase >>

HexChars == << "0", "1", "2", "3", "4", "5", "6", "7", "8", "9", "a", "b", "c", "d", "e", "f" >>

\* {:x} of a number: its hexadecimal digits, lowercase, none of them leading zeros
RECURSIVE LowerHexNat(_)
LowerHexNat(n) ==
    IF n < 16 THEN << HexChars[n + 1] >>
    ELSE LowerHexNat(n \div 16) \o << HexChars[(n % 16) + 1] >>

\* the width w of {:0w...}: zeros in front of a rendering shorter than w
ZeroPad(s, w) == [i \in 1..(IF Len(s) < w THEN w - Len(s) ELSE 0) |-> "0"] \o s

\* {:x} of a u64
RECURSIVE LowerHex(_)
LowerHex(d) ==
    IF Len(d) = 1 THEN LowerHexNat(d[1])
    ELSE IF d[1] = 0 THEN LowerHex(Tail(d))
    ELSE LET rest == Tail(d)
             low[i \in 0..Len(rest)] ==
                 IF i = 0 THEN <<>> ELSE low[i - 1] \o ZeroPad(LowerHexNat(rest[i]), 4)
         IN  LowerHexNat(d[1]) \o low[Len(rest)]

\* format!("{:016x}", d)
format_016x(d) == ZeroPad(LowerHex(d), 16)

\* Hashtable::resolve altered: the fallback is rendered without padding
resolve_unpadded(table, hash) ==
    IF hash \in DOMAIN table THEN table[hash] ELSE LowerHex(hash)

\* Hashtable::resolve, hashtable.rs lines 165-170
resolve(table, hash) ==
    IF hash \in DOMAIN table THEN table[hash] ELSE format_016x(hash)
(***************************************************************************)
(* core/wad/extractor.rs                                                   *)
(***************************************************************************)
\* the length above which extract_skin_assets stores a chunk under its digest
LongNameLimit == 200

S_dot_wad_client == <<".","w","a","d",".","c","l","i","e","n","t">>
S_dot_ltk == <<".","l","t","k">>
S_dot == <<".">>
S_long_head == <<"a","s","s","e","t","s","/","C","h","a","r","a","c","t","e","r","s","/","K","a","y","n","/">>
S_long_tail == <<"/","G","l","o","w",".","t","e","x">>

\* a name of n characters: a deep directory of the archive, in the mixed case
\* the hash lists of the game carry for some entries
NameOfLength(n) ==
    S_long_head \o [i \in 1..(n - Len(S_long_head) - Len(S_long_tail)) |-> "x"] \o S_long_tail

\* the digests of the modelled archive
H_tex == << 0, 1, 9029, 26505 >>
H_long == << 43981, 0, 0, 1 >>
H_limit == << 43981, 0, 0, 2 >>
H_unnamed == << 0, 0, 57005, 48879 >>

\* the names the hash lists give them; H_unnamed has none
ChunkNames ==
    (H_tex :> P_tex) @@ (H_long :> NameOfLength(LongNameLimit + 1))
                     @@ (H_limit :> NameOfLength(LongNameLimit))

\* bytes of a chunk as the decoder returns them
GoodBytes == << 82, 51 >>
LongBytes == << 82, 51, 0 >>

\* LeagueFileKind::extension of the kind identify_from_bytes gives: none for
\* Unknown and for a kind without extension
kind_extension(kind) == IF kind = "Png" THEN Some(<<"p","n","g">>) ELSE None

\* what can be wrong with one chunk of an archive: load_chunk_decompressed
\* fails on it, or returns bytes of another length than its table entry says
Defects == { "none", "undecodable", "wrong_size" }

\* the archive: four chunks in table order, the i-th with the given defect
Archive(i, defect, kind) ==
    LET hashes == << H_tex, H_long, H_unnamed, H_limit >>
    IN  [ k \in 1..Len(hashes) |->
            [ path_hash |-> hashes[k],
              uncompressed_size |-> Len(GoodBytes),
              decompressed |-> IF k # i \/ defect = "none" THEN Some(GoodBytes)
                               ELSE IF defect = "wrong_size" THEN Some(LongBytes)
                               ELSE None,
              kind |-> IF hashes[k] = H_unnamed THEN kind ELSE "Unknown" ] ]

\* PathBuf::with_file_name
with_file_name(p, name) == IF LastIndexOf(p, "/") = 0 THEN name ELSE join(parent(p), name)

\* resolve_chunk_path, lines 406-448; kind is what identify_from_bytes finds
resolve_chunk_path(path, kind) ==
    IF extension(path) # <<>> THEN path
    ELSE IF kind_extension(kind) = None
    THEN with_file_name(path, file_name(path) \o S_dot_ltk)
    ELSE with_file_name(path, file_name(path) \o S_dot_ltk \o S_dot \o kind_extension(kind)[1])

\* extract_skin_assets, lines 280-282: {champion}.wad.client under the output directory
wad_output_dir(champion) == join(file_base, to_lowercase(champion) \o S_dot_wad_client)

\* the error of fs::write to p, "none" when it succeeds
write_error(p) ==
    IF p \in DOMAIN failing THEN failing[p]
    ELSE IF is_dir(output, p) THEN "IsADirectory"
    ELSE "none"

\* fs::create_dir_all(dir) fails
create_dir_all_fails(dir) ==
    \/ \E a \in Ancestors(dir) \cup {dir} : a \in DOMAIN failing
    \/ ~can_create_dir_all(output, dir)

\* HashMap::insert
insert(map, k, v) == (k :> v) @@ map

\* the organizer is not running
OrganizerIdle ==
    /\ fs = <<>>
    /\ readonly = {}
    /\ unreadable = {}
    /\ config = [enable_concat |-> FALSE, enable_repath |-> FALSE, cleanup_unused |-> FALSE,
                 creator_name |-> N_creator, project_name |-> N_project,
                 champion |-> N_champion, target_skin_id |-> 0]
    /\ path_mappings = <<>>
    /\ pc = "idle"
    /\ run = 0
    /\ main_bin_path = None
    /\ concat = NoConcat
    /\ concat_result = None
    /\ concat_outcome = "none"
    /\ bin_files = <<>>
    /\ existing_paths = {}
    /\ result = NoResult
    /\ repath_result = None
    /\ repath_outcome = "none"
    /\ returned = "none"
    /\ fs_begin = <<>>
    /\ fs_phase = <<>>
    /\ prev = NoPrev

\* the paths the extraction of the modelled archive writes to or beneath
FailCandidates ==
    { join(wad_output_dir(N_champion), P_tex),
      P_tex,
      parent(NameOfLength(LongNameLimit + 1)),
      join(wad_output_dir(N_champion), parent(NameOfLength(LongNameLimit + 1))),
      NameOfLength(LongNameLimit + 1) }

\* an archive with at most one defective chunk is about to be extracted into an
\* empty directory in which at most one path cannot be written
InitExtract ==
    /\ OrganizerIdle
    /\ CreateIdle
    /\ ClassifyIdle
    /\ CodecIdle
    /\ ci \in BOOLEAN
    /\ HashIdle
    /\ DownloadIdle
    /\ BinIdle
    /\ \E i \in 1..4, defect \in Defects, kind \in {"Unknown", "Png"} :
          /\ defect = "none" => i = 1
          /\ chunks = Archive(i, defect, kind)
          /\ \E bad \in SUBSET FailCandidates, err \in {"PermissionDenied", "InvalidFilename"} :
                /\ Cardinality(bad) <= (IF defect = "none" THEN 1 ELSE 0)
                /\ bad = {} => err = "PermissionDenied"
                /\ failing = [p \in bad |-> err]
    /\ hashtable \in { None, Some(ChunkNames) }
    /\ extract_fn = "none"
    /\ next_chunk = 0
    /\ output = <<>>
    /\ extracted_count = 0
    /\ extract_mappings = <<>>
    /\ extract_returned = "none"
    /\ written = <<>>
\* the write of chunk i to path p has succeeded
Put(i, p) ==
    /\ output' = write(output, p, chunks[i].decompressed[1])
    /\ written' = Append(written, [chunk |-> i, path |-> p])

\* extract_chunk, lines 32-93: one chunk to the path the caller names
ExtractChunk ==
    /\ extract_fn = "none"
    /\ \E i \in 1..Len(chunks) :
          LET chunk == chunks[i]
              output_path == resolve_chunk_path(resolve(ChunkNames, chunk.path_hash), chunk.kind)
              ok == /\ chunk.decompressed # None
                    /\ Len(chunk.decompressed[1]) = chunk.uncompressed_size
                    /\ ~create_dir_all_fails(parent(output_path))
                    /\ write_error(output_path) = "none"
          IN  /\ next_chunk' = i
              /\ IF ok THEN Put(i, output_path) ELSE UNCHANGED << output, written >>
              /\ extract_returned' = IF ok THEN "ok" ELSE "err"
    /\ extract_fn' = "extract_chunk"
    /\ UNCHANGED << chunks, hashtable, failing, extracted_count, extract_mappings >>
    /\ UNCHANGED << organizer_vars, hash_vars, download_vars, bin_vars, codec_vars, classify_vars, create_vars >>

\* extract_all or extract_skin_assets is called and reaches its loop
ExtractCall ==
    /\ extract_fn = "none"
    /\ \E f \in { "extract_all", "extract_skin_assets" } :
          /\ f = "extract_skin_assets" => hashtable # None
          /\ extract_fn' = f
    /\ next_chunk' = 1
    /\ UNCHANGED << chunks, hashtable, output, failing, extracted_count, extract_mappings,
                    extract_returned, written >>
    /\ UNCHANGED << organizer_vars, hash_vars, download_vars, bin_vars, codec_vars, classify_vars, create_vars >>

\* extract_all, lines 129-210: one turn of the loop
ExtractAllChunk ==
    /\ extract_fn = "extract_all"
    /\ extract_returned = "none"
    /\ next_chunk <= Len(chunks)
    /\ LET chunk == chunks[next_chunk]
           path_hash == chunk.path_hash
           resolved_path == IF hashtable # None THEN resolve(hashtable[1], path_hash)
                            ELSE format_016x(path_hash)
           final_path == resolve_chunk_path(resolved_path, chunk.kind)
           full_output_path == join(file_base, final_path)
           hex_output_path == resolve_chunk_path(format_016x(path_hash), chunk.kind)
           full_hex_path == join(file_base, hex_output_path)
       IN  IF \/ chunk.decompressed = None
              \/ Len(chunk.decompressed[1]) # chunk.uncompressed_size
              \/ create_dir_all_fails(parent(full_output_path))
           THEN /\ extract_returned' = "err"
                /\ UNCHANGED << output, written, extracted_count >>
           ELSE IF write_error(full_output_path) = "none"
           THEN /\ Put(next_chunk, full_output_path)
                /\ extracted_count' = extracted_count + 1
                /\ UNCHANGED extract_returned
           ELSE IF write_error(full_output_path) = "InvalidFilename"
                   /\ write_error(full_hex_path) = "none"
           THEN /\ Put(next_chunk, full_hex_path)
                /\ extracted_count' = extracted_count + 1
                /\ UNCHANGED extract_returned
           ELSE /\ extract_returned' = "err"
                /\ UNCHANGED << output, written, extracted_count >>
    /\ next_chunk' = next_chunk + 1
    /\ UNCHANGED << chunks, hashtable, extract_fn, failing, extract_mappings >>
    /\ UNCHANGED << organizer_vars, hash_vars, download_vars, bin_vars, codec_vars, classify_vars, create_vars >>

\* extract_all, lines 212-214: the loop is over
ExtractAllReturn ==
    /\ extract_fn = "extract_all"
    /\ extract_returned = "none"
    /\ next_chunk > Len(chunks)
    /\ extract_returned' = "ok"
    /\ UNCHANGED << chunks, hashtable, extract_fn, next_chunk, output, failing,
                    extracted_count, extract_mappings, written >>
    /\ UNCHANGED << organizer_vars, hash_vars, download_vars, bin_vars, codec_vars, classify_vars, create_vars >>

\* extract_skin_assets, lines 328-348 altered: a name of exactly the limit is already long
is_long_inclusive(final_path) == Len(final_path) >= LongNameLimit

\* extract_skin_assets, lines 330-331: the name is too long to be written as it is
is_long(final_path) == Len(final_path) > LongNameLimit

\* extract_skin_assets, lines 333-336: parent/<16 hex digits>.<ext>
hash_path_of(final_path, path_hash) ==
    LET ext == IF extension(final_path) = <<>> THEN S_bin ELSE extension(final_path)
    IN  join(parent(final_path), format_016x(path_hash) \o S_dot \o ext)

\* extract_skin_assets, lines 298-370: one turn of the loop
ExtractSkinChunk ==
    /\ extract_fn = "extract_skin_assets"
    /\ extract_returned = "none"
    /\ next_chunk <= Len(chunks)
    /\ LET chunk == chunks[next_chunk]
           path_hash == chunk.path_hash
           resolved_path == resolve(hashtable[1], path_hash)
           final_path == resolve_chunk_path(resolved_path, chunk.kind)
           hash_path == hash_path_of(final_path, path_hash)
           original_normalized == replace(to_lowercase(final_path), "\\", "/")
           actual_normalized == replace(to_lowercase(hash_path), "\\", "/")
           output_path_to_use == IF is_long(final_path)
                                 THEN join(wad_output_dir(N_champion), hash_path)
                                 ELSE join(wad_output_dir(N_champion), final_path)
       IN  IF chunk.decompressed = None
           THEN UNCHANGED << output, written, extracted_count, extract_mappings >>
           ELSE /\ extract_mappings' = IF is_long(final_path)
                                       THEN insert(extract_mappings, original_normalized,
                                                   actual_normalized)
                                       ELSE extract_mappings
                /\ IF /\ ~create_dir_all_fails(parent(output_path_to_use))
                      /\ write_error(output_path_to_use) = "none"
                   THEN /\ Put(next_chunk, output_path_to_use)
                        /\ extracted_count' = extracted_count + 1
                   ELSE UNCHANGED << output, written, extracted_count >>
    /\ next_chunk' = next_chunk + 1
    /\ UNCHANGED << chunks, hashtable, extract_fn, failing, extract_returned >>
    /\ UNCHANGED << organizer_vars, hash_vars, download_vars, bin_vars, codec_vars, classify_vars, create_vars >>

\* extract_skin_assets, lines 372-387: the loop is over
ExtractSkinReturn ==
    /\ extract_fn = "extract_skin_assets"
    /\ extract_returned = "none"
    /\ next_chunk > Len(chunks)
    /\ extract_returned' = "ok"
    /\ UNCHANGED << chunks, hashtable, extract_fn, next_chunk, output, failing,
                    extracted_count, extract_mappings, written >>
    /\ UNCHANGED << organizer_vars, hash_vars, download_vars, bin_vars, codec_vars, classify_vars, create_vars >>

NextExtract ==
    \/ ExtractChunk
    \/ ExtractCall
    \/ ExtractAllChunk
    \/ ExtractAllReturn
    \/ ExtractSkinChunk
    \/ ExtractSkinReturn

SpecExtract == InitExtract /\ [][NextExtract]_vars
(***************************************************************************)
(* Properties of the extractor                                             *)
(***************************************************************************)
\* C11: every chunk that extract_chunk, extract_all or extract_skin_assets has
\* written lies on disk with exactly uncompressed_size bytes; a chunk whose
\* decompressed length differs from its uncompressed_size is never written.
C11_SizeGuarantee ==
    \A k \in 1..Len(written) :
        LET w == written[k]
        IN  /\ Len(chunks[w.chunk].decompressed[1]) = chunks[w.chunk].uncompressed_size
            /\ is_file(output, w.path)
            /\ Len(read(output, w.path)) = chunks[w.chunk].uncompressed_size
\* the chunks extract_skin_assets has written so far
SkinWritten == IF extract_fn = "extract_skin_assets" THEN { written[k].chunk : k \in 1..Len(written) } ELSE {}

\* the logical path of chunk i: the name the hashtable resolves its digest to
LogicalPath(i) == resolve(hashtable[1], chunks[i].path_hash)

\* a path of the shape <parent>/<16 hex digits of the digest>.<ext>
HashNamed(m, dir, path_hash, ext) ==
    /\ parent(m) = dir
    /\ file_name(m) = format_016x(path_hash) \o <<".">> \o ext

FinalPath(i) == resolve_chunk_path(LogicalPath(i), chunks[i].kind)

NoSizeMismatch ==
    \A i \in 1..Len(chunks) :
        chunks[i].decompressed # None =>
            Len(chunks[i].decompressed[1]) = chunks[i].uncompressed_size

\* C13: in extract_all and extract_skin_assets the failure to decompress or to
\* write one chunk does not abort the batch: the call does not return an error,
\* and when it returns every other chunk has been written and extracted_count
\* counts the chunks written.
C13_ChunkFailureLocal ==
    (extract_fn \in { "extract_all", "extract_skin_assets" } /\ NoSizeMismatch) =>
        /\ extract_returned # "err"
        /\ extract_returned = "ok" =>
              /\ Len(written) >= Len(chunks) - 1
              /\ extracted_count = Len(written)
(***************************************************************************)
(* core/hash/hashtable.rs: parsing of hash files                           *)
(***************************************************************************)
\* char::to_digit(radix): the value of a digit character, -1 when it is none
to_digit(c, radix) ==
    IF \E v \in 1..radix : HexChars[v] = LowerCh(c)
    THEN (CHOOSE v \in 1..radix : HexChars[v] = LowerCh(c)) - 1
    ELSE -1

\* char::is_ascii_hexdigit
is_ascii_hexdigit(c) == to_digit(c, 16) >= 0

\* checked d * m + a on a u64: None on overflow
checked_mul_add(d, m, a) ==
    LET carry[k \in 1..Len(d)] ==
            IF k = Len(d) THEN a ELSE (d[k + 1] * m + carry[k + 1]) \div LimbBase
    IN  IF (d[1] * m + carry[1]) \div LimbBase > 0 THEN None
        ELSE Some([k \in 1..Len(d) |-> (d[k] * m + carry[k]) % LimbBase])

\* u64::from_str_radix: an optional plus sign, then at least one digit, every
\* character a digit of the radix, the value below 2^64; None on error
RECURSIVE accumulate_digits(_, _, _, _)
accumulate_digits(digits, k, radix, acc) ==
    IF k > Len(digits) THEN Some(acc)
    ELSE IF to_digit(digits[k], radix) < 0 THEN None
    ELSE CHOOSE r \in { IF next = None THEN None
                        ELSE accumulate_digits(digits, k + 1, radix, next[1]) :
                        next \in { checked_mul_add(acc, radix, to_digit(digits[k], radix)) } } :
             TRUE

from_str_radix(src, radix) ==
    LET digits == IF Len(src) > 0 /\ src[1] = "+" THEN Tail(src) ELSE src
    IN  IF Len(digits) = 0 THEN None ELSE accumulate_digits(digits, 1, radix, U64(0))

\* str::trim (the white space of the modelled files is the blank)
RECURSIVE trim(_)
trim(s) ==
    IF Len(s) > 0 /\ s[1] = " " THEN trim(Tail(s))
    ELSE IF Len(s) > 0 /\ s[Len(s)] = " " THEN trim(SubSeq(s, 1, Len(s) - 1))
    ELSE s

\* str::splitn(2, ' ')
splitn2(s) ==
    IF \E i \in 1..Len(s) : s[i] = " "
    THEN LET i == CHOOSE k \in 1..Len(s) : s[k] = " " /\ \A j \in 1..(k - 1) : s[j] # " "
         IN  << SubSeq(s, 1, i - 1), skip(s, i) >>
    ELSE << s >>

\* parse_hash_content, lines 130-140: the digest a token stands for, None when
\* it is invalid
parse_hash(hash_str) ==
    IF starts_with(hash_str, <<"0","x">>) \/ starts_with(hash_str, <<"0","X">>)
    THEN from_str_radix(skip(hash_str, 2), 16)
    ELSE IF \A i \in 1..Len(hash_str) : is_ascii_hexdigit(hash_str[i])
    THEN from_str_radix(hash_str, 16)
    ELSE from_str_radix(hash_str, 10)

\* parse_hash_content, lines 109-156: the lines of a file are inserted into
\* mappings one after the other; the first invalid digest stops it with the
\* number of its line, and what was inserted before stays
\* parse_hash_content, lines 111-151, on one line: the line is skipped, or its
\* digest is invalid, or it gives an entry
parse_line(raw) ==
    CHOOSE r \in
        { IF line = <<>> \/ line[1] = "#" THEN [kind |-> "skip"]
          ELSE CHOOSE e \in
                 { IF Len(parts) # 2 THEN [kind |-> "skip"]
                   ELSE CHOOSE x \in
                          { IF hash = None THEN [kind |-> "invalid"]
                            ELSE [kind |-> "entry", hash |-> hash[1], path_str |-> parts[2]] :
                            hash \in { parse_hash(parts[1]) } } : TRUE :
                   parts \in { splitn2(line) } } : TRUE :
          line \in { trim(raw) } } : TRUE

RECURSIVE parse_lines(_, _, _)
parse_lines(content, line_num, so_far) ==
    IF line_num >= Len(content) THEN [mappings |-> so_far, error |-> None]
    ELSE CHOOSE r \in
           { IF parsed.kind = "skip" THEN parse_lines(content, line_num + 1, so_far)
             ELSE IF parsed.kind = "invalid"
             THEN [mappings |-> so_far,
                   error |-> Some([kind |-> "Parse", line |-> line_num + 1])]
             ELSE CHOOSE rest \in
                    { parse_lines(content, line_num + 1, inserted) :
                      inserted \in { insert(so_far, parsed.hash, parsed.path_str) } } : TRUE :
             parsed \in { parse_line(content[line_num + 1]) } } : TRUE

parse_hash_content(content, mappings_in) == parse_lines(content, 0, mappings_in)
(***************************************************************************)
(* core/hash/hashtable.rs and state.rs: the hash store                     *)
(***************************************************************************)
S_txt == <<"t","x","t">>
N_hashes == <<"h","a","s","h","e","s",".","t","x","t">>
N_hashes2 == <<"h","a","s","h","e","s","2",".","t","x","t">>
N_game_part == <<"h","a","s","h","e","s",".","g","a","m","e",".","t","x","t",".","0">>

\* a file that is not valid UTF-8: fs::read_to_string fails on it
NotUtf8 == [utf8 |-> FALSE, lines |-> <<>>]

\* a text file of the given lines
File(lines) == [utf8 |-> TRUE, lines |-> lines]

\* contents of hash files, as their lines
F_one == << <<"0","x","1","a","2","b","3","c","4","d"," ","t","e","s","t","1",".","b","i","n">> >>
F_two == << <<"#"," ","m","o","r","e">>, <<>>, <<"5","e","6","f","7","a","8","b"," ","t","e","s","t","2",".","b","i","n">>,
           <<"0","1","2","3","4","5","6","7","8","9","a","b","c","d","e","f">> >>
F_decimal == << <<"1","2","3","4","5","6","7","8","9"," ","t","e","s","t",".","b","i","n">> >>
F_invalid == << <<"0","x","5","e","6","f","7","a","8","b"," ","t","e","s","t","2",".","b","i","n">>,
               <<"i","n","v","a","l","i","d","_","h","a","s","h"," ","t","e","s","t",".","b","i","n">> >>
F_part == << <<"d","e","a","d","b","e","e","f"," ","g","a","m","e",".","b","i","n">> >>

FileContents == { File(F_one), File(F_two), File(F_decimal), File(F_invalid), NotUtf8 }

\* the number of changes a behaviour makes to the hash directory
MaxEdits == 1

\* the digests looked up
D_one == << 0, 0, 6699, 15437 >>
D_two == << 0, 0, 24175, 31371 >>
D_nines == << 39321, 39321, 39321, 39321 >>
ProbeDigests == { D_one, D_two, D_nines, H_tex, H_unnamed, U64(123456789) }

\* from_directory, line 47, and reload, line 192: the .txt files of the directory
txt_files(files) == { n \in DOMAIN files : extension(n) = S_txt }

\* HashMap::extend
extend(map, other) == other @@ map

\* load_hash_file_to_map, lines 88-98: None when the file cannot be read or parsed
load_hash_file_to_map(content) ==
    IF content = NotUtf8 THEN None
    ELSE IF parse_hash_content(content.lines, <<>>).error # None THEN None
    ELSE Some(parse_hash_content(content.lines, <<>>).mappings)

\* from_directory, lines 53-76: the files that load are merged in the order
\* the directory listed them; a file that does not load is left out
RECURSIVE merge_from(_, _, _, _)
merge_from(files, order, k, merged) ==
    IF k > Len(order) THEN merged
    ELSE CHOOSE r \in
           { IF partial = None THEN merge_from(files, order, k + 1, merged)
             ELSE CHOOSE rest \in { merge_from(files, order, k + 1, m) :
                                    m \in { extend(merged, partial[1]) } } : TRUE :
             partial \in { load_hash_file_to_map(files[order[k]]) } } : TRUE

merge_loaded(files, order) == merge_from(files, order, 1, <<>>)

\* Hashtable::from_directory, lines 25-84: what it can return
from_directory(files) ==
    IF files = None
    THEN { [mappings |-> None, error |-> Some([kind |-> "Hash"])] }
    ELSE { [mappings |-> Some(merge_loaded(files[1], order)), error |-> None] :
             order \in Orders(txt_files(files[1])) }

\* load_hash_file, lines 102-105, on the mappings and error so far
load_hash_file(so_far, name, content) ==
    IF so_far.error # None THEN so_far
    ELSE IF content = NotUtf8
    THEN [so_far EXCEPT !.error = Some([kind |-> "Io", file |-> name])]
    ELSE LET parsed == parse_hash_content(content.lines, so_far.mappings)
         IN  IF parsed.error = None THEN parsed
             ELSE [parsed EXCEPT !.error = Some([kind |-> "Parse", file |-> name,
                                                 line |-> parsed.error[1].line])]

\* reload, lines 187-195: the loop over the directory entries
RECURSIVE load_from(_, _, _, _)
load_from(files, order, k, so_far) ==
    IF k > Len(order) THEN so_far
    ELSE CHOOSE r \in { load_from(files, order, k + 1, loaded) :
                        loaded \in { load_hash_file(so_far, order[k], files[order[k]]) } } :
             TRUE

\* Hashtable::reload, lines 180-198: the mappings are cleared, then the files
\* are read into them in the order the directory lists them, until one fails
reload(old, files) ==
    IF files = None
    THEN { [mappings |-> <<>>, error |-> Some([kind |-> "Io", file |-> <<>>])] }
    ELSE { load_from(files[1], order, 1, [mappings |-> <<>>, error |-> None]) :
             order \in Orders(txt_files(files[1])) }

\* the outcome of a call that returned r
outcome_of(r) == IF r.error = None THEN [kind |-> "Ok"] ELSE r.error[1]

\* a hash directory, missing or with one hash file and a part of a split file
InitHash ==
    /\ OrganizerIdle
    /\ CreateIdle
    /\ ClassifyIdle
    /\ CodecIdle
    /\ ci = FALSE
    /\ ExtractorIdle
    /\ DownloadIdle
    /\ BinIdle
    /\ hash_files \in { None } \cup { Some((N_hashes :> c) @@ (N_game_part :> File(F_part))) : c \in FileContents }
    /\ mappings = None
    /\ lazy_hashtable = None
    /\ hash_dir = None
    /\ hash_call = NoCall
    /\ lookup = None
    /\ edits = 0

\* a hash file is written by another program (the downloader, the user)
EditHashFile ==
    /\ hash_files # None
    /\ edits < MaxEdits
    /\ \E n \in { N_hashes, N_hashes2 }, c \in FileContents :
          /\ (n \in DOMAIN hash_files[1] => hash_files[1][n] # c)
          /\ hash_files' = Some((n :> c) @@ hash_files[1])
    /\ edits' = edits + 1
    /\ hash_call' = [op |-> "edit", outcome |-> [kind |-> "Ok"], before |-> <<>>]
    /\ UNCHANGED << mappings, lazy_hashtable, hash_dir, lookup >>
    /\ UNCHANGED << organizer_vars, extractor_vars, download_vars, bin_vars, codec_vars, classify_vars, create_vars >>

\* Hashtable::from_directory, lines 25-84
FromDirectory ==
    /\ mappings = None
    /\ \E r \in from_directory(hash_files) :
          /\ mappings' = r.mappings
          /\ hash_call' = [op |-> "from_directory", outcome |-> outcome_of(r), before |-> mappings]
    /\ UNCHANGED << hash_files, lazy_hashtable, hash_dir, lookup, edits >>
    /\ UNCHANGED << organizer_vars, extractor_vars, download_vars, bin_vars, codec_vars, classify_vars, create_vars >>

\* Hashtable::reload, lines 180-198
Reload ==
    /\ mappings # None
    /\ \E r \in reload(mappings[1], hash_files) :
          /\ mappings' = Some(r.mappings)
          /\ hash_call' = [op |-> "reload", outcome |-> outcome_of(r), before |-> mappings]
    /\ UNCHANGED << hash_files, lazy_hashtable, hash_dir, lookup, edits >>
    /\ UNCHANGED << organizer_vars, extractor_vars, download_vars, bin_vars, codec_vars, classify_vars, create_vars >>

\* reload_hashes, commands/hash.rs lines 94-105, and HashtableState::init,
\* state.rs lines 35-40: the directory is created and its path set
ReloadHashes ==
    /\ hash_files' = IF hash_files = None THEN Some(<<>>) ELSE hash_files
    /\ hash_dir' = Some("hash_dir")
    /\ hash_call' = [op |-> "reload_hashes", outcome |-> [kind |-> "Ok"], before |-> lazy_hashtable]
    /\ UNCHANGED << mappings, lazy_hashtable, lookup, edits >>
    /\ UNCHANGED << organizer_vars, extractor_vars, download_vars, bin_vars, codec_vars, classify_vars, create_vars >>

\* HashtableState::get_hashtable, state.rs lines 44-69: the table lookups go
\* through, None when no directory has been set
get_hashtable ==
    IF lazy_hashtable # None THEN { lazy_hashtable }
    ELSE IF hash_dir = None THEN { None }
    ELSE { IF r.error = None THEN r.mappings ELSE Some(<<>>) : r \in from_directory(hash_files) }

\* the record of a lookup of digest d in table
Looked(table, d) ==
    [digest |-> d, result |-> resolve(table, d),
     stored |-> IF d \in DOMAIN table THEN Some(table[d]) ELSE None]

\* Hashtable::resolve on the owned table
Lookup ==
    /\ mappings # None
    /\ \E d \in ProbeDigests :
          /\ lookup # Some(Looked(mappings[1], d))
          /\ lookup' = Some(Looked(mappings[1], d))
    /\ UNCHANGED << hash_files, mappings, lazy_hashtable, hash_dir, hash_call, edits >>
    /\ UNCHANGED << organizer_vars, extractor_vars, download_vars, bin_vars, codec_vars, classify_vars, create_vars >>

\* a lookup through the shared state: get_hashtable, then Hashtable::resolve
LookupShared ==
    /\ \E table \in get_hashtable :
          /\ table # None
          /\ lazy_hashtable' = table
          /\ \E d \in ProbeDigests :
                /\ lazy_hashtable # None => lookup # Some(Looked(table[1], d))
                /\ lookup' = Some(Looked(table[1], d))
    /\ UNCHANGED << hash_files, mappings, hash_dir, hash_call, edits >>
    /\ UNCHANGED << organizer_vars, extractor_vars, download_vars, bin_vars, codec_vars, classify_vars, create_vars >>

NextHash ==
    \/ EditHashFile
    \/ FromDirectory
    \/ Reload
    \/ ReloadHashes
    \/ Lookup
    \/ LookupShared

SpecHash == InitHash /\ [][NextHash]_vars
(***************************************************************************)
(* Properties of the hash store                                            *)
(***************************************************************************)
S_deadbeef == <<"0","0","0","0","0","0","0","0","d","e","a","d","b","e","e","f">>

\* s is the 16-digit lowercase hexadecimal rendering of digest d
CanonicalHex(s, d) ==
    /\ Len(s) = 16
    /\ \A i \in 1..Len(s) : s[i] \in Range(HexChars)
    /\ from_str_radix(s, 16) = Some(d)

\* C14: whatever loads and reloads came before, Hashtable::resolve(d) returns
\* the name stored for d when there is one, and otherwise the lowercase,
\* zero-padded 16-digit hexadecimal rendering of d; resolve(0xdeadbeef) with
\* no name stored is "00000000deadbeef".
C14_HashFallback ==
    lookup # None =>
        LET l == lookup[1]
        IN  /\ l.stored # None => l.result = l.stored[1]
            /\ l.stored = None => CanonicalHex(l.result, l.digest)
            /\ (l.stored = None /\ l.digest = H_unnamed) => l.result = S_deadbeef

\* after a from_directory and a reload, 0xdeadbeef has been looked up and has
\* no name, while another digest has one
C14_Witness ==
    /\ hash_call.op = "reload"
    /\ mappings # None
    /\ DOMAIN mappings[1] # {}
    /\ lookup # None
    /\ lookup[1].digest = H_unnamed
    /\ lookup[1].stored = None
    /\ lookup[1].result = S_deadbeef
\* the line `123456789 test.bin`
L_decimal == F_decimal[1]

\* some .txt file of the directory holds the line
InTxtFile(files, line) ==
    \E n \in txt_files(files) :
        files[n].utf8 /\ \E k \in 1..Len(files[n].lines) : files[n].lines[k] = line

\* the owned table has just been loaded from the directory as it is
JustLoaded ==
    /\ hash_call.op \in { "from_directory", "reload" }
    /\ hash_call.outcome.kind = "Ok"
    /\ mappings # None

\* C15: a line whose digest token is a decimal number without 0x prefix is
\* stored under the decimal value of the token: after the line
\* `123456789 test.bin` has been loaded, resolve(123456789) is "test.bin".
C15_DecimalDigest ==
    (JustLoaded /\ InTxtFile(hash_files[1], L_decimal)) =>
        resolve(mappings[1], U64(123456789)) = <<"t","e","s","t",".","b","i","n">>
\* the two-token lines with an invalid digest token in the .txt files: file and
\* 1-based line number
Malformed(files) ==
    UNION { { [file |-> n, line |-> k] :
                k \in { j \in 1..Len(files[n].lines) :
                           parse_line(files[n].lines[j]).kind = "invalid" } } :
            n \in { m \in txt_files(files) : files[m].utf8 } }

\* C16: when a .txt file of the directory holds a two-token line whose digest
\* token is neither hexadecimal nor decimal, Hashtable::from_directory fails
\* with a Parse error that carries the file and the 1-based line number, and
\* returns no store.
C16_ParseErrorReported ==
    (hash_call.op = "from_directory" /\ hash_files # None /\ Malformed(hash_files[1]) # {}) =>
        /\ hash_call.outcome.kind = "Parse"
        /\ [file |-> hash_call.outcome.file, line |-> hash_call.outcome.line]
               \in Malformed(hash_files[1])
        /\ mappings = None
\* the names the .txt files of the directory give digest d
NamesInFiles(files, d) ==
    UNION { { parse_line(files[n].lines[k]).path_str :
                k \in { j \in 1..Len(files[n].lines) :
                          /\ parse_line(files[n].lines[j]).kind = "entry"
                          /\ parse_line(files[n].lines[j]).hash = d } } :
            n \in { m \in txt_files(files) : files[m].utf8 } }

\* every .txt file of the directory can be read and parsed
WellFormed(files) ==
    /\ \A n \in txt_files(files) : files[n].utf8
    /\ Malformed(files) = {}

\* lookups in table resolve the digests according to the files
FollowsFiles(table, files) ==
    \A d \in ProbeDigests :
        IF NamesInFiles(files, d) = {} THEN resolve(table, d) = format_016x(d)
        ELSE resolve(table, d) \in NamesInFiles(files, d)

\* C17: once a reload has completed (Hashtable::reload on an owned table, or
\* reload_hashes / HashtableState::init on the shared state), lookups resolve
\* digests according to the hash files now in the directory, also when the
\* shared table had been lazily loaded before the files changed.
C17_ReloadFollowsFiles ==
    /\ (hash_call.op = "reload" /\ hash_call.outcome.kind = "Ok") =>
          FollowsFiles(mappings[1], hash_files[1])
    /\ (hash_call.op = "reload_hashes" /\ WellFormed(hash_files[1])) =>
          \A table \in get_hashtable :
              table # None /\ FollowsFiles(table[1], hash_files[1])

\* C18: the hash store is refreshed atomically: when Hashtable::reload fails
\* while re-reading a file, the mappings visible afterwards are exactly those
\* from before the reload, never a cleared or partially filled table.
C18_ReloadAtomic ==
    (hash_call.op = "reload" /\ hash_call.outcome.kind # "Ok") =>
        mappings = hash_call.before
(***************************************************************************)
(* The hash downloader (core/hash/downloader.rs).  File names are opaque   *)
(* here and are kept as plain strings; ages are counted in days.           *)
(***************************************************************************)

\* HASH_FILES: the files to download, in the order of the loop
HASH_FILES ==
    << "hashes.binentries.txt", "hashes.binhashes.txt", "hashes.bintypes.txt",
       "hashes.binfields.txt", "hashes.game.txt.0", "hashes.game.txt.1",
       "hashes.lcu.txt", "hashes.rst.txt" >>

\* the file merge_split_files writes
N_merged == "hashes.game.txt"

\* FILE_AGE_THRESHOLD, in days
FILE_AGE_THRESHOLD == 14

\* a file of the output directory
Absent == [exists |-> FALSE, age |-> 0, writable |-> TRUE]
Present(age, writable) == [exists |-> TRUE, age |-> age, writable |-> writable]

\* DownloadStats { downloaded: 0, skipped: 0, errors: 0 }
NoStats == [downloaded |-> 0, skipped |-> 0, errors |-> 0]

\* what a request can meet: an answer, no connection, an error status, a
\* body that cannot be read
Answers == { "ok", "unreachable", "status", "body" }

\* what the listing can say about a file: listed with a URL, not listed,
\* listed without a download URL
Listings == { "url", "unlisted", "no_url" }

\* needs_update: a missing file, or one older than the threshold
needs_update(file) == ~file.exists \/ file.age > FILE_AGE_THRESHOLD

\* download_file for one file: "downloaded" for Ok(true), "skipped" for
\* Ok(false), else the error
download_file(net, hash_file, dir, forced) ==
    IF ~forced /\ ~needs_update(dir[hash_file]) THEN "skipped"
    ELSE IF net.listed[hash_file] = "unlisted" THEN "Hash"
    ELSE IF net.listed[hash_file] = "no_url" THEN "Hash"
    ELSE IF net.files[hash_file] = "unreachable" THEN "Network"
    ELSE IF net.files[hash_file] = "status" THEN "Hash"
    ELSE IF net.files[hash_file] = "body" THEN "Network"
    ELSE IF ~dir[hash_file].writable THEN "Io"
    ELSE "downloaded"

\* fetch_file_list: "ok" or the error
fetch_file_list(net) ==
    CASE net.listing = "ok" -> "ok"
      [] net.listing = "unreachable" -> "Network"
      [] net.listing = "status" -> "Hash"
      [] net.listing = "body" -> "Network"

\* merge_split_files: "ok" or the error
merge_split_files(dir) ==
    IF ~dir["hashes.game.txt.0"].exists \/ ~dir["hashes.game.txt.1"].exists THEN "ok"
    ELSE IF ~dir[N_merged].writable THEN "Io"
    ELSE "ok"

\* what download_hashes returned
Returned(kind, s, error) == [kind |-> kind, stats |-> s, error |-> error]

\* the names of the output directory
DirNames == Range(HASH_FILES) \cup { N_merged }

\* a repository that answers every request
GoodNetwork ==
    [ client |-> TRUE, listing |-> "ok",
      listed |-> [ n \in Range(HASH_FILES) |-> "url" ],
      files |-> [ n \in Range(HASH_FILES) |-> "ok" ] ]

\* the repositories of the model: at most one request of the call goes wrong
Networks ==
    { GoodNetwork, [GoodNetwork EXCEPT !.client = FALSE] }
    \cup { [GoodNetwork EXCEPT !.listing = a] : a \in Answers }
    \cup { [GoodNetwork EXCEPT !.listed[n] = l] : n \in Range(HASH_FILES), l \in Listings }
    \cup { [GoodNetwork EXCEPT !.files[n] = a] : n \in Range(HASH_FILES), a \in Answers }

\* the output directories of the model: empty, just downloaded, at the age
\* threshold, past it, with a file that cannot be written
OutputDirs ==
    { [ n \in DirNames |-> Absent ] }
    \cup { [ n \in DirNames |-> Present(age, TRUE) ] : age \in { 0, FILE_AGE_THRESHOLD, FILE_AGE_THRESHOLD + 1 } }
    \cup { [ [ n \in DirNames |-> Present(FILE_AGE_THRESHOLD + 1, TRUE) ] EXCEPT ![locked].writable = FALSE ] :
             locked \in { "hashes.lcu.txt", N_merged } }

\* a download_hashes call is about to start; the output directory is None
\* when it cannot be created
InitDownload ==
    /\ OrganizerIdle
    /\ CreateIdle
    /\ ClassifyIdle
    /\ CodecIdle
    /\ ci = FALSE
    /\ ExtractorIdle
    /\ HashIdle
    /\ BinIdle
    /\ network \in { Some(net) : net \in Networks }
    /\ output_dir \in { None } \cup { Some(dir) : dir \in OutputDirs }
    /\ force \in BOOLEAN
    /\ download_pc = "start"
    /\ next_file = 0
    /\ stats = Some(NoStats)
    /\ attempted = {}
    /\ download_result = None

\* download_hashes up to the loop: create_dir_all, the client, fetch_file_list,
\* each of which ends the call with its error
DownloadStart ==
    /\ download_pc = "start"
    /\ IF output_dir = None
       THEN /\ download_result' = Some(Returned("Err", stats[1], "Io"))
            /\ download_pc' = "done"
            /\ UNCHANGED next_file
       ELSE IF ~network[1].client
       THEN /\ download_result' = Some(Returned("Err", stats[1], "Network"))
            /\ download_pc' = "done"
            /\ UNCHANGED next_file
       ELSE IF fetch_file_list(network[1]) # "ok"
       THEN /\ download_result' = Some(Returned("Err", stats[1], fetch_file_list(network[1])))
            /\ download_pc' = "done"
            /\ UNCHANGED next_file
       ELSE /\ download_pc' = "files"
            /\ next_file' = 1
            /\ UNCHANGED download_result
    /\ UNCHANGED << network, output_dir, force, stats, attempted >>
    /\ UNCHANGED << organizer_vars, extractor_vars, hash_vars, bin_vars, codec_vars, classify_vars, create_vars >>

\* one turn of the loop over HASH_FILES
DownloadFile ==
    /\ download_pc = "files"
    /\ LET hash_file == HASH_FILES[next_file]
           r == download_file(network[1], hash_file, output_dir[1], force)
       IN /\ attempted' = attempted \cup { hash_file }
          /\ stats' = Some(CASE r = "downloaded" -> [stats[1] EXCEPT !.downloaded = @ + 1]
                             [] r = "skipped" -> [stats[1] EXCEPT !.skipped = @ + 1]
                             [] OTHER -> [stats[1] EXCEPT !.errors = @ + 1])
          /\ output_dir' = IF r = "downloaded"
                           THEN Some([output_dir[1] EXCEPT ![hash_file] = Present(0, TRUE)])
                           ELSE output_dir
    /\ IF next_file = Len(HASH_FILES)
       THEN download_pc' = "merge" /\ UNCHANGED next_file
       ELSE next_file' = next_file + 1 /\ UNCHANGED download_pc
    /\ UNCHANGED << network, force, download_result >>
    /\ UNCHANGED << organizer_vars, extractor_vars, hash_vars, bin_vars, codec_vars, classify_vars, create_vars >>

\* the end of download_hashes: merge_split_files, then Ok(stats)
DownloadReturn ==
    /\ download_pc = "merge"
    /\ LET r == merge_split_files(output_dir[1])
           s == IF r = "ok" THEN stats[1] ELSE [stats[1] EXCEPT !.errors = @ + 1]
       IN /\ stats' = Some(s)
          /\ download_result' = Some(Returned("Ok", s, "none"))
          /\ output_dir' = IF r = "ok" /\ output_dir[1]["hashes.game.txt.0"].exists
                                       /\ output_dir[1]["hashes.game.txt.1"].exists
                           THEN Some([output_dir[1] EXCEPT ![N_merged] = Present(0, TRUE)])
                           ELSE output_dir
    /\ download_pc' = "done"
    /\ UNCHANGED << network, force, next_file, attempted >>
    /\ UNCHANGED << organizer_vars, extractor_vars, hash_vars, bin_vars, codec_vars, classify_vars, create_vars >>

NextDownload ==
    \/ DownloadStart
    \/ DownloadFile
    \/ DownloadReturn

SpecDownload == InitDownload /\ [][NextDownload]_vars
(***************************************************************************)
(* Properties of the hash downloader.                                      *)
(***************************************************************************)

\* the listing request of the call was made and failed in the network
ListingFailed ==
    /\ output_dir # None
    /\ network[1].client
    /\ fetch_file_list(network[1]) = "Network"

\* the files whose download was asked for and failed in the network
FilesFailed ==
    { n \in attempted : download_file(network[1], n, output_dir[1], force) = "Network" }

\* C19: a network failure during download_hashes does not abort the batch:
\* when the call is over and one of its requests (the listing or a file) has
\* failed in the network, every file of HASH_FILES was attempted, each failing
\* file is counted in errors, and the call returned Ok with the DownloadStats.
C19_NetworkFailureLocal ==
    (download_pc = "done" /\ download_result # None /\ (ListingFailed \/ FilesFailed # {})) =>
        /\ download_result[1].kind = "Ok"
        /\ download_result[1].stats = stats[1]
        /\ attempted = Range(HASH_FILES)
        /\ stats[1].errors >= Cardinality(FilesFailed)
(***************************************************************************)
(* The text cache of a BIN file (commands/bin.rs, read_or_convert_bin).    *)
(* The bytes of a .bin file and the text of a sidecar are records naming   *)
(* their format and the tree they hold, so that a binary file, its text    *)
(* form and the text form of another tree are three different values.      *)
(***************************************************************************)

\* the clock stops here
MaxClock == 2

\* the trees of the model
Trees == { "tree_a", "tree_b" }

\* the bytes of a .bin file holding tree, and bytes that are no BIN file
BinBytes(tree) == [format |-> "bin", tree |-> tree]
Junk == [format |-> "junk", tree |-> "none"]
BinContents == { BinBytes(t) : t \in Trees } \cup { Junk }

\* the ritobin text of tree, and a text somebody typed into the sidecar
Text(tree) == [format |-> "ritobin", tree |-> tree]
EditedText == Text("edited")

\* read_bin_ltk: the tree of the bytes, None when they cannot be parsed
read_bin_ltk(data) == IF data.format = "bin" THEN Some(data.tree) ELSE None

\* tree_to_text_cached: the text form of the tree
tree_to_text_cached(tree) == Text(tree)

\* a file with content and modification time
Stamped(content, mtime) == [content |-> content, mtime |-> mtime]

\* the sidecar: missing, or present with content and modification time
NoSidecar(writable) ==
    [exists |-> FALSE, content |-> EditedText, mtime |-> 0, writable |-> writable, utf8 |-> TRUE]
Sidecar(content, mtime, writable, utf8) ==
    [exists |-> TRUE, content |-> content, mtime |-> mtime, writable |-> writable, utf8 |-> utf8]

\* the paths a caller passes
S_empty == ""
S_bin_path == "data/characters/kayn/skins/skin0.bin"

\* the cache is valid: the sidecar exists and is not older than the .bin
cache_valid_strict(bin, ritobin) == ritobin.exists /\ ritobin.mtime > bin.mtime
cache_valid(bin, ritobin) == ritobin.exists /\ ritobin.mtime >= bin.mtime

\* what a read_or_convert_bin call did: its argument, its result, the files
\* whose content it read, and the two files before and the sidecar after it
BinRead(path, kind, text, reads, bin, ritobin, after) ==
    [ path |-> path, kind |-> kind, text |-> text, reads |-> reads,
      bin |-> bin, ritobin |-> ritobin, after |-> after ]

\* read_or_convert_bin(bin_path) called at time
read_or_convert_bin(bin_path, bin, ritobin, time) ==
    IF bin_path = S_empty \/ bin = None
    THEN BinRead(bin_path, "Err", None, {}, bin, ritobin, ritobin)
    ELSE IF cache_valid(bin[1], ritobin)
    THEN IF ritobin.utf8
         THEN BinRead(bin_path, "Ok", Some(ritobin.content), { "ritobin" }, bin, ritobin, ritobin)
         ELSE BinRead(bin_path, "Err", None, { "ritobin" }, bin, ritobin, ritobin)
    ELSE IF read_bin_ltk(bin[1].content) = None
    THEN BinRead(bin_path, "Err", None, { "bin" }, bin, ritobin, ritobin)
    ELSE LET text == tree_to_text_cached(read_bin_ltk(bin[1].content)[1])
         IN BinRead(bin_path, "Ok", Some(text), { "bin" }, bin, ritobin,
                    IF ritobin.writable THEN Sidecar(text, time, TRUE, TRUE) ELSE ritobin)

\* a BIN file, missing or written at time 0, and a sidecar, missing or left
\* by an earlier conversion or edit
InitBin ==
    /\ OrganizerIdle
    /\ CreateIdle
    /\ ClassifyIdle
    /\ CodecIdle
    /\ ci = FALSE
    /\ ExtractorIdle
    /\ HashIdle
    /\ DownloadIdle
    /\ bin_file \in { None } \cup { Some(Stamped(data, 0)) : data \in BinContents }
    /\ ritobin_file \in { NoSidecar(w) : w \in BOOLEAN }
                        \cup { Sidecar(Text(t), 0, w, TRUE) : t \in Trees, w \in BOOLEAN }
    /\ now = 0
    /\ bin_read = None
    /\ bin_save = None

\* time passes
Tick ==
    /\ now < MaxClock
    /\ now' = now + 1
    /\ UNCHANGED << bin_file, ritobin_file, bin_read, bin_save >>
    /\ UNCHANGED << organizer_vars, extractor_vars, hash_vars, download_vars, codec_vars, classify_vars, create_vars >>

\* another program writes the .bin file
WriteBin ==
    /\ \E data \in BinContents : bin_file' = Some(Stamped(data, now))
    /\ UNCHANGED << ritobin_file, now, bin_read, bin_save >>
    /\ UNCHANGED << organizer_vars, extractor_vars, hash_vars, download_vars, codec_vars, classify_vars, create_vars >>

\* another program writes the sidecar, as text or not
WriteSidecar ==
    /\ ritobin_file.writable
    /\ \E utf8 \in BOOLEAN : ritobin_file' = Sidecar(EditedText, now, TRUE, utf8)
    /\ UNCHANGED << bin_file, now, bin_read, bin_save >>
    /\ UNCHANGED << organizer_vars, extractor_vars, hash_vars, download_vars, codec_vars, classify_vars, create_vars >>

\* the command read_or_convert_bin
ReadOrConvertBin ==
    /\ \E bin_path \in { S_empty, S_bin_path } :
          LET r == read_or_convert_bin(bin_path, bin_file, ritobin_file, now)
          IN /\ bin_read' = Some(r)
             /\ ritobin_file' = r.after
    /\ UNCHANGED << bin_file, now, bin_save >>
    /\ UNCHANGED << organizer_vars, extractor_vars, hash_vars, download_vars, codec_vars, classify_vars, create_vars >>

\* a text that is no ritobin text
BadText == [format |-> "text", tree |-> "none"]

\* the texts a caller saves
SaveContents == { Text(t) : t \in Trees } \cup { BadText }

\* text_to_tree: the tree of the text, None when it cannot be parsed
text_to_tree(text) == IF text.format = "ritobin" THEN Some(text.tree) ELSE None

\* write_bin_ltk: the bytes of the tree
write_bin_ltk(tree) == BinBytes(tree)

\* what fs::write can do to a file: write it, refuse to open it, stop after
\* it has truncated the file and written a part
WriteOutcomes == { "written", "refused", "partial" }

\* the .bin file after fs::write(bin_path, data) at time
fs_write_bin(bin, data, time, outcome) ==
    CASE outcome = "written" -> Some(Stamped(data, time))
      [] outcome = "partial" -> Some(Stamped(Junk, time))
      [] outcome = "refused" -> bin

\* a save_ritobin_to_bin call
Save(at, content, kind) == [pc |-> at, content |-> content, kind |-> kind]

\* no save_ritobin_to_bin call is between its two writes
SaveAtRest == IF bin_save = None THEN TRUE ELSE bin_save[1].pc # "bin_written"

\* save_ritobin_to_bin up to and including the write of the .bin file
SaveRitobinToBin ==
    /\ SaveAtRest
    /\ \E bin_path \in { S_empty, S_bin_path }, content \in SaveContents, outcome \in WriteOutcomes :
          IF bin_path = S_empty \/ text_to_tree(content) = None
          THEN /\ bin_save' = Some(Save("returned", content, "Err"))
               /\ UNCHANGED bin_file
          ELSE /\ bin_file' = fs_write_bin(bin_file, write_bin_ltk(text_to_tree(content)[1]), now, outcome)
               /\ bin_save' = IF outcome = "written"
                              THEN Some(Save("bin_written", content, "none"))
                              ELSE Some(Save("returned", content, "Err"))
    /\ UNCHANGED << ritobin_file, now, bin_read >>
    /\ UNCHANGED << organizer_vars, extractor_vars, hash_vars, download_vars, codec_vars, classify_vars, create_vars >>

\* the rest of save_ritobin_to_bin: the write of the sidecar, whose failure
\* is logged, and Ok(())
SaveUpdateCache ==
    /\ bin_save # None
    /\ bin_save[1].pc = "bin_written"
    /\ ritobin_file' = IF ritobin_file.writable
                       THEN Sidecar(bin_save[1].content, now, TRUE, TRUE)
                       ELSE ritobin_file
    /\ bin_save' = Some(Save("returned", bin_save[1].content, "Ok"))
    /\ UNCHANGED << bin_file, now, bin_read >>
    /\ UNCHANGED << organizer_vars, extractor_vars, hash_vars, download_vars, codec_vars, classify_vars, create_vars >>

\* the process ends between the two writes of save_ritobin_to_bin
SaveInterrupted ==
    /\ bin_save # None
    /\ bin_save[1].pc = "bin_written"
    /\ bin_save' = Some(Save("interrupted", bin_save[1].content, "none"))
    /\ UNCHANGED << bin_file, ritobin_file, now, bin_read >>
    /\ UNCHANGED << organizer_vars, extractor_vars, hash_vars, download_vars, codec_vars, classify_vars, create_vars >>

NextBin ==
    \/ Tick
    \/ WriteBin
    \/ WriteSidecar
    \/ ReadOrConvertBin
    \/ SaveRitobinToBin
    \/ SaveUpdateCache
    \/ SaveInterrupted

SpecBin == InitBin /\ [][NextBin]_vars

(***************************************************************************)
(* Properties of the text cache.                                           *)
(***************************************************************************)

\* the last call was made for an existing .bin file
ReadExisting == bin_read # None /\ bin_read[1].path # S_empty /\ bin_read[1].bin # None

\* the last call found a sidecar at least as new as the .bin file
SidecarCurrent ==
    /\ bin_read[1].ritobin.exists
    /\ bin_read[1].ritobin.mtime >= bin_read[1].bin[1].mtime

\* the last call returned the sidecar as it was, read nothing else and wrote nothing
ServedFromSidecar ==
    /\ bin_read[1].kind = "Ok"
    /\ bin_read[1].text = Some(bin_read[1].ritobin.content)
    /\ bin_read[1].reads = { "ritobin" }
    /\ bin_read[1].after = bin_read[1].ritobin

\* the last call returned the text form of the tree in the .bin file and left
\* it in the sidecar
ConvertedAndCached ==
    /\ read_bin_ltk(bin_read[1].bin[1].content) # None
    /\ bin_read[1].kind = "Ok"
    /\ bin_read[1].text = Some(Text(read_bin_ltk(bin_read[1].bin[1].content)[1]))
    /\ bin_read[1].reads = { "bin" }
    /\ bin_read[1].after.exists
    /\ Some(bin_read[1].after.content) = bin_read[1].text

\* the files of the last call could be used: the sidecar, where it is served,
\* is text; the .bin file, where it is converted, holds a tree and the sidecar
\* can be written
FilesUsable ==
    IF SidecarCurrent THEN bin_read[1].ritobin.utf8
    ELSE read_bin_ltk(bin_read[1].bin[1].content) # None /\ bin_read[1].ritobin.writable

C20_WitnessStale ==
    /\ ReadExisting
    /\ bin_read[1].ritobin.exists
    /\ ~SidecarCurrent
    /\ ConvertedAndCached
    /\ bin_read[1].after # bin_read[1].ritobin
\* a step of a save_ritobin_to_bin call
SaveStep == SaveRitobinToBin \/ SaveUpdateCache \/ SaveInterrupted

\* the .bin file holds the bytes of the text of the save
SavedBin ==
    /\ text_to_tree(bin_save[1].content) # None
    /\ bin_file # None
    /\ bin_file[1].content = write_bin_ltk(text_to_tree(bin_save[1].content)[1])

\* the sidecar holds the text of the save
SavedSidecar ==
    /\ ritobin_file.exists
    /\ ritobin_file.utf8
    /\ ritobin_file.content = bin_save[1].content

\* C21: a save through the text form updates the .bin file and its sidecar
\* atomically: after no step of save_ritobin_to_bin, a failed write and an
\* interruption between the writes included, does the disk hold the new .bin
\* without the new sidecar, and a save that returns an error leaves both
\* files as they were.
C21_SaveAtomic ==
    [][ SaveStep =>
          /\ bin_save'[1].kind = "Err" => (bin_file' = bin_file /\ ritobin_file' = ritobin_file)
          /\ bin_save'[1].kind # "Err" => (SavedBin' => SavedSidecar') ]_vars
(***************************************************************************)
(* The BIN codec (core/bin/ltk_bridge.rs).  read_bin and write_bin are the *)
(* repository's; the reader and the writer they call (BinTree::from_reader *)
(* and BinTree::to_writer) are not among the sources and are modelled from *)
(* the specification's BinCodec section: a tagged encoding, value by       *)
(* value, that keeps every kind.  Bytes are a record of their length, the  *)
(* first bytes (the magic) and the encoded items after the magic.          *)
(***************************************************************************)

\* MAX_BIN_SIZE: 50 * 1024 * 1024
MAX_BIN_SIZE == 52428800

\* the magic of a property tree and of a patch
S_PROP == << "P", "R", "O", "P" >>
S_PTCH == << "P", "T", "C", "H" >>

\* one more kind of value: a container of count 32-bit numbers that is kept
\* as its length
Repeated(count) == [k |-> "repeated", count |-> count]

\* the items of a sequence of values, and of one value
RECURSIVE encode_values(_)
encode_value(v) ==
    CASE v.k = "string" -> << [tag |-> "string", s |-> v.s] >>
      [] v.k = "other" -> << [tag |-> "other"] >>
      [] v.k = "repeated" -> << [tag |-> "repeated", n |-> v.count] >>
      [] v.k \in { "container", "unordered", "struct", "embedded", "optional" } ->
            << [tag |-> v.k, n |-> Len(v.items)] >> \o encode_values(v.items)
      [] v.k = "map" ->
            << [tag |-> "map", n |-> Len(v.entries)] >>
            \o encode_values([ i \in 1..(2 * Len(v.entries)) |->
                                 IF i % 2 = 1 THEN v.entries[(i + 1) \div 2].key
                                 ELSE v.entries[i \div 2].val ])
encode_values(values) ==
    IF values = <<>> THEN <<>>
    ELSE encode_value(Head(values)) \o encode_values(Tail(values))

\* the digests of a set in ascending order
RECURSIVE ascending(_)
ascending(S) ==
    IF S = {} THEN <<>>
    ELSE LET least == CHOOSE x \in S : \A y \in S : x <= y
         IN << least >> \o ascending(S \ { least })

\* the items of the objects with the given digests
RECURSIVE encode_objects(_, _)
encode_objects(objects, digests) ==
    IF digests = <<>> THEN <<>>
    ELSE << [tag |-> "object", digest |-> Head(digests), n |-> Len(objects[Head(digests)])] >>
         \o encode_values(objects[Head(digests)])
         \o encode_objects(objects, Tail(digests))

\* the items of a tree: the dependency list, then the objects
encode_tree(tree) ==
    << [tag |-> "deps", n |-> Len(tree.deps)] >>
    \o [ i \in 1..Len(tree.deps) |-> [tag |-> "dep", s |-> tree.deps[i]] ]
    \o << [tag |-> "objects", n |-> Cardinality(DOMAIN tree.objects)] >>
    \o encode_objects(tree.objects, ascending(DOMAIN tree.objects))

\* the number of bytes of an item
item_len(item) ==
    CASE item.tag \in { "string", "dep" } -> 3 + Len(item.s)
      [] item.tag = "other" -> 5
      [] item.tag = "repeated" -> 9 + 4 * item.n
      [] item.tag = "object" -> 10
      [] OTHER -> 9

\* the number of bytes of a sequence of items
RECURSIVE items_len(_)
items_len(items) ==
    IF items = <<>> THEN 0 ELSE item_len(Head(items)) + items_len(Tail(items))

\* bytes: their length, the first min(4, len) of them, the items after the
\* magic, and whether the reader panics on them
Data(len, magic, body, panics) == [len |-> len, magic |-> magic, body |-> body, panics |-> panics]

\* BinTree::to_writer: the bytes of a tree
to_writer(tree) ==
    Data(Len(S_PROP) + items_len(encode_tree(tree)), S_PROP, encode_tree(tree), FALSE)

\* write_bin
write_bin(tree) == [kind |-> "Ok", data |-> to_writer(tree)]
\* a parse that failed at item i
Failed(i) == [ok |-> FALSE, values |-> <<>>, next |-> i]

\* the entries of a map from its keys and values in turn
entries_of(values) ==
    [ i \in 1..(Len(values) \div 2) |-> [key |-> values[2 * i - 1], val |-> values[2 * i]] ]

\* n values read from the items from position i on: whether that was
\* possible, the values, the position after them
RECURSIVE decode_values(_, _, _)
decode_values(items, i, n) ==
    IF n = 0 THEN [ok |-> TRUE, values |-> <<>>, next |-> i]
    ELSE IF i > Len(items) THEN Failed(i)
    ELSE LET item == items[i]
             first ==
                CASE item.tag = "string" -> [ok |-> TRUE, values |-> << Str(item.s) >>, next |-> i + 1]
                  [] item.tag = "other" -> [ok |-> TRUE, values |-> << Other >>, next |-> i + 1]
                  [] item.tag = "repeated" -> [ok |-> TRUE, values |-> << Repeated(item.n) >>, next |-> i + 1]
                  [] item.tag \in { "container", "unordered", "struct", "embedded", "optional" } ->
                        CHOOSE r \in { IF inner.ok
                                       THEN [ok |-> TRUE,
                                             values |-> << [k |-> item.tag, items |-> inner.values] >>,
                                             next |-> inner.next]
                                       ELSE Failed(i) :
                                       inner \in { decode_values(items, i + 1, item.n) } } : TRUE
                  [] item.tag = "map" ->
                        CHOOSE r \in { IF inner.ok
                                       THEN [ok |-> TRUE,
                                             values |-> << Map(entries_of(inner.values)) >>,
                                             next |-> inner.next]
                                       ELSE Failed(i) :
                                       inner \in { decode_values(items, i + 1, 2 * item.n) } } : TRUE
                  [] OTHER -> Failed(i)
         IN CHOOSE r \in { IF ~head.ok THEN Failed(i)
                           ELSE CHOOSE q \in { IF rest.ok
                                               THEN [ok |-> TRUE, values |-> head.values \o rest.values,
                                                     next |-> rest.next]
                                               ELSE Failed(i) :
                                               rest \in { decode_values(items, head.next, n - 1) } } : TRUE :
                           head \in { first } } : TRUE

\* n objects read from the items from position i on, added to objects
RECURSIVE decode_objects(_, _, _, _)
decode_objects(items, i, n, objects) ==
    IF n = 0 THEN [ok |-> i = Len(items) + 1, objects |-> objects]
    ELSE IF i > Len(items) THEN [ok |-> FALSE, objects |-> objects]
    ELSE IF items[i].tag # "object" THEN [ok |-> FALSE, objects |-> objects]
    ELSE CHOOSE r \in { IF props.ok
                        THEN decode_objects(items, props.next, n - 1,
                                            (items[i].digest :> props.values) @@ objects)
                        ELSE [ok |-> FALSE, objects |-> objects] :
                        props \in { decode_values(items, i + 1, items[i].n) } } : TRUE

\* the function with no argument
NoObjects == [ d \in {} |-> <<>> ]

\* the tree of the items, None when they are not the items of a tree
decode_tree(items) ==
    IF items = <<>> THEN None
    ELSE IF items[1].tag # "deps" THEN None
    ELSE LET n == items[1].n
         IN IF Len(items) < n + 2 THEN None
            ELSE IF \E i \in 2..(n + 1) : items[i].tag # "dep" THEN None
            ELSE IF items[n + 2].tag # "objects" THEN None
            ELSE CHOOSE r \in { IF decoded.ok
                                THEN Some(Tree([ i \in 1..n |-> items[i + 1].s ], decoded.objects))
                                ELSE None :
                                decoded \in { decode_objects(items, n + 3, items[n + 2].n, NoObjects) } } : TRUE

\* BinTree::from_reader: "panic" when the reader panics on the bytes, else
\* the tree or "error"
from_reader(data) ==
    IF data.panics THEN [kind |-> "panic", tree |-> None]
    ELSE IF decode_tree(data.body) = None THEN [kind |-> "error", tree |-> None]
    ELSE [kind |-> "tree", tree |-> decode_tree(data.body)]

\* what read_bin returned: Ok with the tree, or Err with the error, and
\* whether the reader was called
ReadResult(kind, tree, error, parsed) ==
    [kind |-> kind, tree |-> tree, error |-> error, parsed |-> parsed]

\* the magic bytes are those of a BIN file
is_bin_magic(magic) == magic = S_PROP \/ magic = S_PTCH

\* the bytes are too many
too_large_inclusive(len) == len >= MAX_BIN_SIZE
too_large(len) == len > MAX_BIN_SIZE

\* read_bin without catch_unwind
read_bin_unguarded(data) ==
    IF too_large(data.len) THEN ReadResult("Err", None, "TooLarge", FALSE)
    ELSE IF data.len >= 4 /\ ~is_bin_magic(data.magic) THEN ReadResult("Err", None, "InvalidMagic", FALSE)
    ELSE IF data.len < 4 THEN ReadResult("Err", None, "TooSmall", FALSE)
    ELSE CASE from_reader(data).kind = "tree" -> ReadResult("Ok", from_reader(data).tree, "none", TRUE)
           [] from_reader(data).kind = "error" -> ReadResult("Err", None, "ParseFailed", TRUE)
           [] from_reader(data).kind = "panic" -> ReadResult("Panic", None, "none", TRUE)

\* read_bin
read_bin(data) ==
    IF too_large(data.len) THEN ReadResult("Err", None, "TooLarge", FALSE)
    ELSE IF data.len >= 4 /\ ~is_bin_magic(data.magic) THEN ReadResult("Err", None, "InvalidMagic", FALSE)
    ELSE IF data.len < 4 THEN ReadResult("Err", None, "TooSmall", FALSE)
    ELSE CASE from_reader(data).kind = "tree" -> ReadResult("Ok", from_reader(data).tree, "none", TRUE)
           [] from_reader(data).kind = "error" -> ReadResult("Err", None, "ParseFailed", TRUE)
           [] from_reader(data).kind = "panic" -> ReadResult("Err", None, "ParserCrash", TRUE)
\* the first n elements of a sequence, all of them when it is shorter
Prefix(seq, n) == SubSeq(seq, 1, IF n < Len(seq) THEN n ELSE Len(seq))

\* the trees given to write_bin: with and without dependencies, in both
\* orders, with containers of both kinds, an optional, a map, none at all,
\* and two with a long container, of MAX_BIN_SIZE bytes and just above
T_unordered == Tree(<<>>, (2 :> << Unordered(<< Str(R_a), Other >>) >>))
T_empty == Tree(<<>>, NoObjects)
T_bulk(count) == Tree(<<>>, (7 :> << Str(<<>>), Repeated(count) >>))

\* the count of 32-bit numbers that brings T_bulk to MAX_BIN_SIZE bytes
BulkCount == (MAX_BIN_SIZE - to_writer(T_bulk(0)).len) \div 4

CodecTrees ==
    { T_main(<< P_l1, P_l2 >>), T_main(<< P_l2, P_l1 >>), T_l1, T_l2, T_unordered, T_empty,
      T_bulk(1), T_bulk(BulkCount), T_bulk(BulkCount + 1) }

\* magic bytes found on disk
S_PROQ == << "P", "R", "O", "Q" >>
S_RIFF == << "R", "I", "F", "F" >>
Magics == { S_PROP, S_PTCH, S_PROQ, S_RIFF }

\* bytes found on disk that no write_bin made: of every length around the
\* two limits, with every magic, holding no items, items of no tree, the
\* items of a tree or a part of them
RawBodies == { <<>>, << [tag |-> "junk"] >>, encode_tree(T_l2), Prefix(encode_tree(T_l2), 4) }
RawLens == { 0, 1, 3, 4, 5, MAX_BIN_SIZE - 1, MAX_BIN_SIZE, MAX_BIN_SIZE + 1 }
RawInputs ==
    { Data(len, Prefix(magic, len), body, panics) :
        len \in RawLens, magic \in Magics, body \in RawBodies, panics \in BOOLEAN }

\* a tree to write, or bytes to read
InitCodec ==
    /\ OrganizerIdle
    /\ CreateIdle
    /\ ClassifyIdle
    /\ ci = FALSE
    /\ ExtractorIdle
    /\ HashIdle
    /\ DownloadIdle
    /\ BinIdle
    /\ \/ /\ codec_tree \in { Some(tree) : tree \in CodecTrees }
          /\ codec_data = None
       \/ /\ codec_tree = None
          /\ codec_data \in { Some(data) : data \in RawInputs }
    /\ codec_result = None

\* write_bin(tree)
WriteBinTree ==
    /\ codec_tree # None
    /\ codec_data = None
    /\ codec_data' = Some(write_bin(codec_tree[1]).data)
    /\ UNCHANGED << codec_tree, codec_result >>
    /\ UNCHANGED << organizer_vars, extractor_vars, hash_vars, download_vars, bin_vars, classify_vars, create_vars >>

\* the written bytes lose their end on the way to the reader
Truncate ==
    /\ codec_tree # None
    /\ codec_data # None
    /\ codec_result = None
    /\ \E n \in 0..(Len(codec_data[1].body) - 1) :
          codec_data' = Some(Data(Len(S_PROP) + items_len(Prefix(codec_data[1].body, n)), S_PROP,
                                  Prefix(codec_data[1].body, n), FALSE))
    /\ codec_tree' = None
    /\ UNCHANGED codec_result
    /\ UNCHANGED << organizer_vars, extractor_vars, hash_vars, download_vars, bin_vars, classify_vars, create_vars >>

\* read_bin(data)
ReadBin ==
    /\ codec_data # None
    /\ codec_result = None
    /\ codec_result' = Some(read_bin(codec_data[1]))
    /\ UNCHANGED << codec_tree, codec_data >>
    /\ UNCHANGED << organizer_vars, extractor_vars, hash_vars, download_vars, bin_vars, classify_vars, create_vars >>

NextCodec ==
    \/ WriteBinTree
    \/ Truncate
    \/ ReadBin

SpecCodec == InitCodec /\ [][NextCodec]_vars
(***************************************************************************)
(* Properties of the BIN codec.                                            *)
(***************************************************************************)

\* the bytes read are fewer than 4, more than 50 MiB, or start with neither
\* PROP nor PTCH
Rejectable ==
    \/ codec_data[1].len < 4
    \/ codec_data[1].len > 50 * 1024 * 1024
    \/ codec_data[1].magic \notin { S_PROP, S_PTCH }

\* C22: read_bin is total and defensive: whatever the bytes, it returns a
\* tree or an error value; it returns an error without calling the reader
\* when the bytes are fewer than 4, more than 50 MiB or start with neither
\* PROP nor PTCH; a panic of the reader comes back as an error.
C22_ReadBinDefensive ==
    codec_result # None =>
        /\ codec_result[1].kind \in { "Ok", "Err" }
        /\ codec_result[1].kind = "Ok" <=> codec_result[1].tree # None
        /\ codec_result[1].kind = "Err" <=> codec_result[1].error # "none"
        /\ Rejectable => (codec_result[1].kind = "Err" /\ ~codec_result[1].parsed)
        /\ (codec_result[1].parsed /\ from_reader(codec_data[1]).kind = "panic") =>
              codec_result[1].kind = "Err"

\* bytes of an accepted length and magic made the reader panic, and read_bin
\* returned an error
C22_Witness ==
    /\ codec_result # None
    /\ ~Rejectable
    /\ codec_data[1].len = 50 * 1024 * 1024
    /\ from_reader(codec_data[1]).kind = "panic"
    /\ codec_result[1].parsed
    /\ codec_result[1].kind = "Err"
\* a tree was written by write_bin and the bytes were read by read_bin
RoundTripDone == codec_tree # None /\ codec_data # None /\ codec_result # None

\* read_bin returned a tree with the objects, the dependency list and the
\* properties, kinds included, of the tree that was written
SameTreeRead ==
    /\ codec_result[1].kind = "Ok"
    /\ codec_result[1].tree # None
    /\ DOMAIN codec_result[1].tree[1].objects = DOMAIN codec_tree[1].objects
    /\ codec_result[1].tree[1].deps = codec_tree[1].deps
    /\ \A d \in DOMAIN codec_tree[1].objects :
          codec_result[1].tree[1].objects[d] = codec_tree[1].objects[d]

C23_WitnessKinds ==
    /\ RoundTripDone
    /\ codec_tree[1] \in { T_unordered, T_main(<< P_l2, P_l1 >>) }
    /\ SameTreeRead
(***************************************************************************)
(* The BIN classifier (core/bin/concat.rs, classify_bin) on paths built    *)
(* from a few segments, in three spellings and with either separator.      *)
(***************************************************************************)

\* the segments of the paths
G_data == <<"d","a","t","a">>
G_characters == <<"c","h","a","r","a","c","t","e","r","s">>
G_kayn == <<"k","a","y","n">>
G_animations == <<"a","n","i","m","a","t","i","o","n","s">>
G_kayn_bin == <<"k","a","y","n",".","b","i","n">>
G_animations_bin == <<"a","n","i","m","a","t","i","o","n","s",".","b","i","n">>
Segments ==
    { G_data, G_characters, G_kayn, G_animations, G_kayn_bin, G_animations_bin,
      S_root_bin, <<>> }

\* the capital of a letter
UpperCh(c) ==
    IF \E cap \in Capitals : LowerCh(cap) = c
    THEN CHOOSE cap \in Capitals : LowerCh(cap) = c
    ELSE c

\* a path in one of the spellings: as it is, in capitals, with a capital first
Spellings == { "lower", "upper", "first" }
spelled(s, spelling) ==
    [ i \in 1..Len(s) |->
        IF spelling = "upper" \/ (spelling = "first" /\ (i = 1 \/ s[IF i = 1 THEN 1 ELSE i - 1] = "/"))
        THEN UpperCh(s[i]) ELSE s[i] ]

\* the segments joined by "/"
RECURSIVE join_all(_)
join_all(segments) ==
    IF Len(segments) = 1 THEN segments[1]
    ELSE segments[1] \o <<"/">> \o join_all(Tail(segments))

\* the longest path has this many segments after its start
MaxSegments == 3

\* the paths: up to MaxSegments segments, alone or below data/characters
SegmentLists == UNION { [1..n -> Segments] : n \in 1..MaxSegments }
BasePaths ==
    { join_all(l) : l \in SegmentLists }
    \cup { S_data_characters_slash \o join_all(l) : l \in SegmentLists }

\* a path in some spelling, and the same path in capitals with backslashes
InitClassify ==
    /\ OrganizerIdle
    /\ CreateIdle
    /\ ci = FALSE
    /\ ExtractorIdle
    /\ HashIdle
    /\ DownloadIdle
    /\ BinIdle
    /\ CodecIdle
    /\ \E base \in BasePaths, spelling \in Spellings, sep \in { "/", "\\" } :
          classify_paths = << replace(spelled(base, spelling), "/", sep),
                              replace(spelled(base, "upper"), "/", "\\") >>
    /\ categories = None

\* classify_bin on both paths
ClassifyBin ==
    /\ categories = None
    /\ categories' = Some(<< classify_bin(classify_paths[1]), classify_bin(classify_paths[2]) >>)
    /\ UNCHANGED classify_paths
    /\ UNCHANGED << organizer_vars, extractor_vars, hash_vars, download_vars, bin_vars, codec_vars, create_vars >>

NextClassify == ClassifyBin

SpecClassify == InitClassify /\ [][NextClassify]_vars
(***************************************************************************)
(* Properties of the BIN classifier.                                       *)
(***************************************************************************)

\* the normalized path has the form data/characters/<champ>/<champ>.bin
ChampionRootForm(n) ==
    /\ Len(split_slash(n)) = 4
    /\ split_slash(n)[1] = G_data
    /\ split_slash(n)[2] = G_characters
    /\ split_slash(n)[4] = split_slash(n)[3] \o S_dot_bin

\* the category the claim gives a path
ClaimedCategory(path) ==
    IF ChampionRootForm(normalize_path(path)) \/ file_name(normalize_path(path)) = S_root_bin
    THEN "ChampionRoot"
    ELSE IF /\ starts_with(normalize_path(path), S_data_characters_slash)
            /\ contains(normalize_path(path), S_slash_animations_slash)
    THEN "Animation"
    ELSE "LinkedData"

\* the same, with a champion folder called animations left to the second rule
AmendedCategory(path) ==
    IF \/ ChampionRootForm(normalize_path(path)) /\ split_slash(normalize_path(path))[3] # G_animations
       \/ file_name(normalize_path(path)) = S_root_bin
    THEN "ChampionRoot"
    ELSE IF /\ starts_with(normalize_path(path), S_data_characters_slash)
            /\ contains(normalize_path(path), S_slash_animations_slash)
    THEN "Animation"
    ELSE "LinkedData"

\* C24, as claimed: classify_bin is total and first-match: on the path with
\* backslashes replaced and in lowercase, it gives Root to
\* data/characters/<champ>/<champ>.bin and to the file name root.bin, else
\* Animation to a path that starts with data/characters/ and contains
\* /animations/, else LinkedData; never Ignore; and the same category to two
\* paths with the same normalized form.
C24_ClassifyFirstMatch ==
    categories # None =>
        /\ \A i \in 1..2 : categories[1][i] = ClaimedCategory(classify_paths[i])
        /\ \A i \in 1..2 : categories[1][i] # "Ignore"
        /\ normalize_path(classify_paths[1]) = normalize_path(classify_paths[2]) =>
              categories[1][1] = categories[1][2]

\* C24: the same, where a path data/characters/animations/animations.bin is
\* not Root but, by the second rule, Animation.
C24_ClassifyExceptAnimations ==
    categories # None =>
        /\ \A i \in 1..2 : categories[1][i] = AmendedCategory(classify_paths[i])
        /\ \A i \in 1..2 : categories[1][i] # "Ignore"
        /\ normalize_path(classify_paths[1]) = normalize_path(classify_paths[2]) =>
              categories[1][1] = categories[1][2]

\* a champion root below Data\Characters, spelled with capitals and
\* backslashes, was classified
C24_Witness ==
    /\ categories # None
    /\ classify_paths[1] # normalize_path(classify_paths[1])
    /\ ChampionRootForm(normalize_path(classify_paths[1]))
    /\ split_slash(normalize_path(classify_paths[1]))[3] = G_kayn
    /\ categories[1] = << "ChampionRoot", "ChampionRoot" >>

(***************************************************************************)
(* Project creation: the create_project command (commands/project.rs) and  *)
(* core create_project (core/project/project.rs).                          *)
(***************************************************************************)

\* char::is_alphanumeric, on the characters of the model
is_alphanumeric(c) == c \in { "a", "b", "k", "0" }

\* sanitize_filename: every character that is not alphanumeric, '-', '_' or ' ' becomes '_'
sanitize_filename(name) ==
    [ i \in 1..Len(name) |->
        IF is_alphanumeric(name[i]) \/ name[i] \in { "-", "_", " " } THEN name[i] ELSE "_" ]

\* the project names of the model, and the directory names they give
ProjectNames == { <<>>, <<"a">>, <<"a", "/", "b">>, <<"a", "_", "b">> }
ProjectDirNames == { sanitize_filename(name) : name \in ProjectNames \ { <<>> } }

\* the entries core create_project makes in the project directory
E_assets == "content/base"
E_output == "output"
E_config == "mod.config.json"
E_flint  == "flint.json"

\* where core create_project can fail: nowhere, or at one of its file operations
CoreFaults ==
    { "none", "output_dir", "project_path", "assets_path", "output_path",
      "config_create", "config_write", "flint_create", "flint_write" }

\* the entries of the project directory when core create_project stops at a fault
entries_until(fault) ==
    CASE fault = "assets_path"   -> {}
      [] fault = "output_path"   -> { E_assets }
      [] fault = "config_create" -> { E_assets, E_output }
      [] fault = "config_write"  -> { E_assets, E_output, E_config }
      [] fault = "flint_create"  -> { E_assets, E_output, E_config }
      [] fault = "flint_write"   -> { E_assets, E_output, E_config, E_flint }
      [] OTHER                   -> { E_assets, E_output, E_config, E_flint }

\* the result of core create_project
Created(kind, dirs, dir) == [kind |-> kind, dirs |-> dirs, project |-> dir]

\* core create_project: validates, creates the output directory when it is
\* missing, refuses an existing project directory, then creates the project
\* directory, its two subdirectories and the two project files
core_create_project(args, dirs, fault) ==
    LET dir == sanitize_filename(args.name)
        made == IF dirs = None THEN Some([ d \in ProjectDirNames |-> None ]) ELSE dirs
    IN  IF args.name = <<>> THEN Created("Err", dirs, None)
        ELSE IF args.champion = "" THEN Created("Err", dirs, None)
        ELSE IF ~args.league_exists THEN Created("Err", dirs, None)
        ELSE IF dirs = None /\ fault = "output_dir" THEN Created("Err", dirs, None)
        ELSE IF made[1][dir] # None THEN Created("Err", made, None)
        ELSE IF fault = "project_path" THEN Created("Err", made, None)
        ELSE IF fault \in { "assets_path", "output_path", "config_create", "config_write",
                            "flint_create", "flint_write" }
        THEN Created("Err", Some([ made[1] EXCEPT ![dir] = Some(entries_until(fault)) ]), None)
        ELSE Created("Ok", Some([ made[1] EXCEPT ![dir] = Some(entries_until("none")) ]), Some(dir))

\* how the extraction task ends: well, at File::open, at Wad::mount, inside
\* extract_skin_assets, or by a panic
ExtractionOutcomes == { "ok", "open", "mount", "extract", "panic" }
\* how std::fs::remove_dir_all ends
CleanupOutcomes == { "removed", "failed" }

\* files extracted into the assets path
E_extracted == "content/base/data"

\* the directories after the extraction step of the command: the assets on
\* success; on failure whatever was extracted, then remove_dir_all, whose
\* failure is only logged
after_extraction(dirs, dir, outcome, cleanup) ==
    LET extracted == Some([ dirs[1] EXCEPT ![dir] = Some(dirs[1][dir][1] \cup { E_extracted }) ])
    IN  IF outcome = "ok" THEN extracted
        ELSE IF cleanup = "removed" THEN Some([ dirs[1] EXCEPT ![dir] = None ])
        ELSE IF outcome \in { "extract", "panic" } THEN extracted
        ELSE dirs

\* the arguments and the environment of a command; a creator is None, empty or a name
Creators == { None, Some(""), Some("me") }
CreateArgs ==
    [ name : ProjectNames, champion : { "", "kayn" }, creator_name : Creators,
      league_exists : BOOLEAN, hashtable_loaded : BOOLEAN, wad_found : BOOLEAN ]

\* the output directory: missing, or with each project directory missing,
\* empty or holding a file
OldDirs == { None, Some({}), Some({ "old.txt" }) }
Disks == { None } \cup { Some(f) : f \in [ ProjectDirNames -> OldDirs ] }

InitCreate ==
    /\ OrganizerIdle
    /\ ci = FALSE
    /\ ExtractorIdle
    /\ HashIdle
    /\ DownloadIdle
    /\ BinIdle
    /\ CodecIdle
    /\ ClassifyIdle
    /\ create_args \in CreateArgs
    /\ project_dirs \in Disks
    /\ dirs_before = project_dirs
    /\ create_pc = "start"
    /\ created_project = None
    /\ create_result = None

\* the command up to the creation of the project: the hash table and the
\* champion's WAD must be there
CreateValidate ==
    /\ create_pc = "start"
    /\ IF ~create_args.hashtable_loaded \/ ~create_args.wad_found
       THEN /\ create_result' = Some("Err")
            /\ create_pc' = "done"
       ELSE /\ create_pc' = "create"
            /\ UNCHANGED create_result
    /\ UNCHANGED << create_args, project_dirs, dirs_before, created_project >>
    /\ UNCHANGED << organizer_vars, extractor_vars, hash_vars, download_vars, bin_vars, codec_vars, classify_vars >>

\* the command runs core create_project; its error, and a panic of the
\* task, are returned as they are
CreateProjectStructure ==
    /\ create_pc = "create"
    /\ \E fault \in CoreFaults \cup { "panic" } :
          LET core == core_create_project(create_args, project_dirs,
                                          IF fault = "panic" THEN "flint_write" ELSE fault)
          IN  /\ project_dirs' = core.dirs
              /\ IF core.kind = "Err"
                 THEN /\ create_result' = Some("Err")
                      /\ create_pc' = "done"
                      /\ UNCHANGED created_project
                 ELSE /\ created_project' = core.project
                      /\ create_pc' = "extract"
                      /\ UNCHANGED create_result
    /\ UNCHANGED << create_args, dirs_before >>
    /\ UNCHANGED << organizer_vars, extractor_vars, hash_vars, download_vars, bin_vars, codec_vars, classify_vars >>

\* the command mounts the WAD and extracts the skin; on failure it removes
\* the project directory and returns the error
CreateExtract ==
    /\ create_pc = "extract"
    /\ \E outcome \in ExtractionOutcomes, cleanup \in CleanupOutcomes :
          /\ project_dirs' = after_extraction(project_dirs, created_project[1], outcome, cleanup)
          /\ IF outcome = "ok"
             THEN /\ create_pc' = "repath"
                  /\ UNCHANGED create_result
             ELSE /\ create_result' = Some("Err")
                  /\ create_pc' = "done"
    /\ UNCHANGED << create_args, dirs_before, created_project >>
    /\ UNCHANGED << organizer_vars, extractor_vars, hash_vars, download_vars, bin_vars, codec_vars, classify_vars >>

\* the command organizes the project when a creator name is given; a
\* failure there is only a warning
E_organized == "content/base/ASSETS"
CreateRepath ==
    /\ create_pc = "repath"
    /\ \E outcome \in { "ok", "err", "panic" } :
          project_dirs' =
              IF create_args.creator_name \in { None, Some("") } \/ outcome # "ok"
              THEN project_dirs
              ELSE Some([ project_dirs[1] EXCEPT ![created_project[1]] = Some(@[1] \cup { E_organized }) ])
    /\ create_result' = Some("Ok")
    /\ create_pc' = "done"
    /\ UNCHANGED << create_args, dirs_before, created_project >>
    /\ UNCHANGED << organizer_vars, extractor_vars, hash_vars, download_vars, bin_vars, codec_vars, classify_vars >>

NextCreate ==
    \/ CreateValidate
    \/ CreateProjectStructure
    \/ CreateExtract
    \/ CreateRepath

SpecCreate == InitCreate /\ [][NextCreate]_vars

(***************************************************************************)
(* Properties of project creation.                                         *)
(***************************************************************************)

\* the directory was there when the command was called
ExistedBefore(dir) == IF dirs_before = None THEN FALSE ELSE dirs_before[1][dir] # None
\* the directory is there
ExistsNow(dir) == IF project_dirs = None THEN FALSE ELSE project_dirs[1][dir] # None

\* C25: when create_project returns an error, no project directory that the
\* call created exists any more (in particular after a failed WAD mount or
\* extraction), and every directory that existed before the call is as it was.
C25_CreateUnwinds ==
    create_result = Some("Err") =>
        \A dir \in ProjectDirNames :
            IF ExistedBefore(dir)
            THEN project_dirs[1][dir] = dirs_before[1][dir]
            ELSE ~ExistsNow(dir)

(***************************************************************************)
(* Properties of the concat tree.                                          *)
(***************************************************************************)

\* create_concat_bin has just written the concat tree
ConcatWritten == pc = "concat" /\ pc' = "concat_update"

\* the objects of the merged sources, in the order they were merged, as they
\* were on disk when create_concat_bin read them
MergedSources ==
    [ i \in 1..Len(concat'.source_paths) |->
        read(fs, join(file_base, concat'.source_paths[i])).objects ]

\* the path digests that occur in a merged source
MergedDigests == UNION { DOMAIN MergedSources[i] : i \in 1..Len(MergedSources) }

\* the last merged source that defines the digest
LastDefining(digest) ==
    CHOOSE i \in 1..Len(MergedSources) :
        /\ digest \in DOMAIN MergedSources[i]
        /\ \A j \in (i + 1)..Len(MergedSources) : digest \notin DOMAIN MergedSources[j]

\* the concat tree as create_concat_bin wrote it
WrittenConcat == read(fs', join(file_base, concat'.concat_path))

\* C26: the concat tree written by create_concat_bin has an empty dependency
\* list and, for each path digest of any merged source, exactly one object:
\* that of the last merged source, in dependency order, that defines it;
\* entry_count is the number of distinct digests and collision_count the total
\* number of merged objects minus entry_count.
C26_ConcatLastWriteWins ==
    [][ ConcatWritten =>
          /\ WrittenConcat.deps = <<>>
          /\ DOMAIN WrittenConcat.objects = MergedDigests
          /\ \A digest \in MergedDigests :
                WrittenConcat.objects[digest] = MergedSources[LastDefining(digest)][digest]
          /\ concat'.entry_count = Cardinality(MergedDigests)
          /\ concat'.collision_count =
                SumSeq([ i \in 1..Len(MergedSources) |-> Cardinality(DOMAIN MergedSources[i]) ])
                    - concat'.entry_count ]_vars

\* two sources that define the same digest differently were merged, and the
\* concat tree holds the object of the second
C26_Witness ==
    /\ pc = "concat_update"
    /\ concat.source_count = 2
    /\ concat.collision_count = 1
    /\ concat.entry_count = 2
    /\ T_l1.objects[2] # T_l2.objects[2]
    /\ read(fs, join(file_base, concat.concat_path)).objects[2] = T_l2.objects[2]

(***************************************************************************)
(* Properties of the rewriting of values.                                  *)
(***************************************************************************)

\* the keys of the maps of a value, in the order of the entries; a map inside
\* a key or inside a value of a map follows the key it belongs to
RECURSIVE MapKeys(_)
MapKeys(v) ==
    CASE v.k \in {"container", "unordered", "struct", "embedded", "optional"} ->
            FlatSeq([i \in 1..Len(v.items) |-> MapKeys(v.items[i])])
      [] v.k = "map" ->
            FlatSeq([i \in 1..Len(v.entries) |->
                        <<v.entries[i].key>> \o MapKeys(v.entries[i].val)])
      [] OTHER -> <<>>

\* the keys of the maps of a tree, by object and property
TreeMapKeys(tree) ==
    [o \in DOMAIN tree.objects |->
        [i \in 1..Len(tree.objects[o]) |-> MapKeys(tree.objects[o][i])]]

\* every string of a value that is not (inside) a map key, with the kinds of
\* the values around it, paired with what it is in a later version of the value
RECURSIVE NestedPairs(_, _, _)
NestedPairs(old, new, around) ==
    CASE old.k = "string" -> { [old |-> old.s, new |-> new.s, around |-> around] }
      [] old.k \in {"container", "unordered", "struct", "embedded", "optional"} ->
            UNION { NestedPairs(old.items[i], new.items[i], around \cup {old.k}) :
                    i \in 1..Len(old.items) }
      [] old.k = "map" ->
            UNION { NestedPairs(old.entries[i].val, new.entries[i].val, around \cup {"map"}) :
                    i \in 1..Len(old.entries) }
      [] OTHER -> {}

\* the same for a tree
TreeNestedPairs(old, new) ==
    UNION { UNION { NestedPairs(old.objects[o][i], new.objects[o][i], {}) :
                    i \in 1..Len(old.objects[o]) } : o \in DOMAIN old.objects }

\* repath_project has just rewritten the trees of its working set
BinsRewritten == pc = "repath_bins" /\ pc' = "relocate"

\* the trees of the working set that repath_bin_file could load and save
Rewritable ==
    { b \in Range(bin_files) :
        can_read(fs, b) /\ parses(read(fs, b)) /\ can_write(fs, b) }

\* C27: refather never changes a map key: for every map of every tree of the
\* working set the sequence of keys after the rewriting is the sequence before
\* it, while every string value nested in containers, unordered containers,
\* structures, embedded objects, present optionals and map values is visited:
\* it is rewritten when its normalized form is among the paths found on disk.
C27_MapKeysKept ==
    [][ BinsRewritten =>
          /\ \A b \in Range(bin_files) :
                (can_read(fs, b) /\ parses(read(fs, b))) =>
                    /\ parses(read(fs', b))
                    /\ TreeMapKeys(read(fs', b)) = TreeMapKeys(read(fs, b))
          /\ \A b \in Rewritable :
                \A pair \in TreeNestedPairs(read(fs, b), read(fs', b)) :
                    (is_asset_path(pair.old) /\ normalize_path(pair.old) \in existing_paths) =>
                        pair.new = apply_prefix_to_path(pair.old, prefix(config)) ]_vars

\* the trees were rewritten; a map key that names a file found on disk is as it
\* was, and the value beside it, a string inside an optional inside an
\* unordered container inside an embedded object inside a structure, and a
\* string inside a container have been rewritten
C27_Witness ==
    /\ pc = "relocate" /\ run = 1
    /\ P_a \in existing_paths
    /\ is_file(fs, P_l2) /\ parses(read(fs, P_l2))
    /\ read(fs, P_l2).objects[3][1].entries[2].key = Str(P_a)
    /\ read(fs, P_l2).objects[3][1].entries[2].val = Str(apply_prefix_to_path(P_da, prefix(config)))
    /\ is_file(fs, P_l1) /\ parses(read(fs, P_l1))
    /\ \E pair \in TreeNestedPairs(T_l1, read(fs, P_l1)) :
          /\ pair.around = {"struct", "embedded", "unordered", "optional"}
          /\ pair.new = apply_prefix_to_path(R_a, prefix(config))
    /\ \E pair \in TreeNestedPairs(T_l1, read(fs, P_l1)) :
          /\ pair.around = {"container"}
          /\ pair.new = apply_prefix_to_path(R_a, prefix(config))

(***************************************************************************)
(* Properties of the working set of repath_project.                        *)
(***************************************************************************)

\* a file of the file system has this path, letter case disregarded
FileAnyCase(f, p) == \E q \in DOMAIN f : to_lowercase(q) = to_lowercase(p)

\* where repath_project looks for a dependency of the main tree
DependencyFile(dep) == join(file_base, actual_path_of(normalize_path(dep)))

\* repath_project has chosen its working set, starting from a main tree it
\* found and could load
WorkingSetFromMain ==
    /\ pc = "repath_bins"
    /\ config.champion # <<>>
    /\ None \notin find_main_skin_bin(fs, file_base, config.champion, config.target_skin_id)
    /\ can_read(fs, Head(bin_files)) /\ parses(read(fs, Head(bin_files)))

\* the tree is in the working set
InWorkingSet(p) == \E i \in 1..Len(bin_files) : to_lowercase(bin_files[i]) = to_lowercase(p)

\* C28: the working set of repath_project is the main tree and every
\* dependency of the main tree whose file is on disk, a file being found also
\* when its name on disk differs from the lowercased logical path in letter
\* case only; after a successful concat step the concat tree named in the
\* main tree's dependency list is in the working set, and its asset paths
\* are rewritten.
C28_WorkingSet ==
    /\ WorkingSetFromMain =>
          /\ Some(Head(bin_files)) \in
                find_main_skin_bin(fs, file_base, config.champion, config.target_skin_id)
          /\ \A dep \in Range(read(fs, Head(bin_files)).deps) :
                FileAnyCase(fs, DependencyFile(dep)) => InWorkingSet(DependencyFile(dep))
          /\ \A i \in 2..Len(bin_files) :
                \E dep \in Range(read(fs, Head(bin_files)).deps) :
                    /\ to_lowercase(bin_files[i]) = to_lowercase(DependencyFile(dep))
                    /\ FileAnyCase(fs, DependencyFile(dep))
          /\ (concat_outcome = "ok" /\ FileAnyCase(fs, join(file_base, concat.concat_path))) =>
                InWorkingSet(join(file_base, concat.concat_path))
    /\ (pc = "relocate" /\ concat_outcome = "ok" /\ bin_files # <<>>
            /\ FileAnyCase(fs_phase, P_concat) /\ FileAnyCase(fs, P_concat)
            /\ P_concat \notin readonly) =>
          \A pair \in TreeNestedPairs(fs_phase[P_concat], fs[P_concat]) :
              (is_asset_path(pair.old) /\ path_on_disk(fs_phase, normalize_path(pair.old))) =>
                  pair.new = apply_prefix_to_path(pair.old, prefix(config))

(***************************************************************************)
(* Properties of organize_project as a whole.                              *)
(***************************************************************************)

\* the main skin trees of a file system: the files at the main tree's path,
\* letter case disregarded, that can be parsed
MainTrees(f) == { q \in DOMAIN f : to_lowercase(q) = P_main /\ parses(f[q]) }

\* the parseable trees on disk that a dependency names, letter case disregarded
TreesNamed(f, dep) ==
    { q \in DOMAIN f : to_lowercase(q) = to_lowercase(DependencyFile(dep)) /\ parses(f[q]) }

\* the path digests of the objects of the LinkedData trees that a main tree lists
LinkedDigests(f) ==
    UNION { DOMAIN f[q].objects :
            q \in UNION { TreesNamed(f, dep) :
                          dep \in { d \in UNION { Range(f[m].deps) : m \in MainTrees(f) } :
                                      classify_bin(d) = "LinkedData" } } }

\* the path digests of the objects of all trees that a main tree lists
ReferencedDigests(f) ==
    UNION { DOMAIN f[q].objects :
            q \in UNION { TreesNamed(f, dep) :
                          dep \in UNION { Range(f[m].deps) : m \in MainTrees(f) } } }

\* C29: no object is lost by organizing: after organize_project returns,
\* whatever the switches and however the concat step ended, every object of
\* every parseable LinkedData tree that was on disk and listed in the main
\* tree's dependencies before the call is still stored on disk in a tree
\* that the main tree's dependency list references.
C29_NoObjectLost ==
    pc = "done" => LinkedDigests(fs_begin) \subseteq ReferencedDigests(fs)

\* the string names a file of the file system that is not a tree, letter case
\* and the direction of the slashes disregarded
RefersToAsset(f, s) ==
    \E q \in DOMAIN f :
        /\ to_lowercase(q) = normalize_path(s)
        /\ to_lowercase(extension(q)) # S_bin

\* the trees of the working set that were parseable when repath_project
\* started and are so now
WorkingSetTrees ==
    { b \in Range(bin_files) :
        /\ is_file(fs_phase, b) /\ parses(read(fs_phase, b))
        /\ is_file(fs, b) /\ parses(read(fs, b)) }

\* C30: refather creates no dangling reference: after repath_project returns
\* Ok, every asset-path string of a tree of the working set, string values and
\* map keys alike, that referred to a file on disk that is not a tree before
\* the call refers to a file on disk after it.
C30_NoDanglingReference ==
    (repath_outcome = "ok" /\ pc \in {"return", "done"}) =>
        \A b \in WorkingSetTrees :
            \A pair \in TreeStringPairs(read(fs_phase, b), read(fs, b)) :
                (is_asset_path(pair[1]) /\ RefersToAsset(fs_phase, pair[1])) =>
                    RefersToAsset(fs, pair[2])

====
